---- MODULE Spec2Model ----
(***************************************************************************)
(* nomnom: the signal-fusion and position-sizing engine.                   *)
(*                                                                         *)
(*   SignalDetector (src/nomnom/signals.py): five sub-detectors, the       *)
(*   weighted combiner, the direction/edge resolver, scan_markets.         *)
(*   calculate_kelly_fraction (src/nomnom/signals.py): the stake sizer.    *)
(*   RecommendationEngine (src/nomnom/recommendations.py): the assembler.  *)
(*   PolymarketClient (src/nomnom/polymarket.py): order book, imbalance.   *)
(*                                                                         *)
(* Python floats are modelled as exact rationals <<n, d>> in lowest terms  *)
(* with d > 0, so that equal values are equal TLA+ values.                 *)
(***************************************************************************)
EXTENDS Integers, Sequences, FiniteSets, TLC

\* ------------------------------------------------------------------------
\* Rational arithmetic (the float operations of the source, taken exactly)
\* ------------------------------------------------------------------------

RECURSIVE GCD(_, _)
GCD(a, b) == IF b = 0 THEN a ELSE GCD(b, a % b)

IAbs(x) == IF x < 0 THEN -x ELSE x

\* n/d in lowest terms with a positive denominator (d # 0)
Rat(n, d) ==
    LET g == GCD(IAbs(n), IAbs(d))
        s == IF d < 0 THEN -1 ELSE 1
    IN  <<(s * n) \div g, (s * d) \div g>>

RInt(n) == <<n, 1>>
RAdd(x, y) == Rat(x[1] * y[2] + y[1] * x[2], x[2] * y[2])
RSub(x, y) == Rat(x[1] * y[2] - y[1] * x[2], x[2] * y[2])
RMul(x, y) == Rat(x[1] * y[1], x[2] * y[2])
\* x / y, y # 0
RDiv(x, y) == Rat(x[1] * y[2], x[2] * y[1])
RLt(x, y) == x[1] * y[2] < y[1] * x[2]
RLe(x, y) == x[1] * y[2] <= y[1] * x[2]
RGt(x, y) == RLt(y, x)
RGe(x, y) == RLe(y, x)
\* Python's min(a, b) and max(a, b): the first argument wins a tie
RMin(x, y) == IF RLt(y, x) THEN y ELSE x
RMax(x, y) == IF RGt(y, x) THEN y ELSE x
RAbs(x) == <<IAbs(x[1]), x[2]>>
RZero == <<0, 1>>
ROne == <<1, 1>>

\* ------------------------------------------------------------------------
\* SignalDetector: class constants
\* ------------------------------------------------------------------------

\* the keys of the scores dict in the order _analyze_market inserts them
ScoreKeys == <<"volume_spike", "order_imbalance", "congress_correlation",
               "price_momentum", "timing_pattern">>

\* WEIGHTS with the order_imbalance weight raised and no other one lowered
WEIGHTS_not_normalised ==
    [order_imbalance      |-> Rat(35, 100),
     volume_spike         |-> Rat(20, 100),
     congress_correlation |-> Rat(25, 100),
     price_momentum       |-> Rat(15, 100),
     timing_pattern       |-> Rat(10, 100)]

WEIGHTS ==
    [order_imbalance      |-> Rat(30, 100),
     volume_spike         |-> Rat(20, 100),
     congress_correlation |-> Rat(25, 100),
     price_momentum       |-> Rat(15, 100),
     timing_pattern       |-> Rat(10, 100)]

VOLUME_SPIKE_THRESHOLD == Rat(2, 1)
\* a threshold of 0.25 in the place of the 0.3 of line 66
ORDER_IMBALANCE_THRESHOLD_lowered == Rat(25, 100)
ORDER_IMBALANCE_THRESHOLD == Rat(3, 10)
CONFIDENCE_THRESHOLD == Rat(5, 10)
\* "if confidence < 0.2:  # Too low to report"
REPORT_FLOOR == Rat(2, 10)

\* ------------------------------------------------------------------------
\* The environment: what the external collaborators answer
\* ------------------------------------------------------------------------

VARIABLES
    env_markets,      \* the Market list PolymarketClient.get_markets returns
    env_books,        \* token_id -> the answer of the CLOB /book request
    env_trades,       \* the list CongressTradingClient.get_recent_trades returns
    now               \* the reading of datetime.now(), in hours

\* Market.end_date is Optional[datetime]: None, or <<h>> for the hour h
None == <<>>

\* str.lower() on the outcome labels that occur
Lower(s) == CASE s = "Yes" -> "yes"
              [] s = "YES" -> "yes"
              [] s = "No"  -> "no"
              [] OTHER     -> s

\* Python truthiness of a token_id: a missing or empty id is 0, ids are 1, 2, ...
Truthy(token_id) == token_id # 0

\* ------------------------------------------------------------------------
\* PolymarketClient
\* ------------------------------------------------------------------------

EmptyBook == [bids |-> <<>>, asks |-> <<>>]

\* get_orderbook: a RequestException is answered by the empty book
get_orderbook(token_id) ==
    IF env_books[token_id].ok
    THEN [bids |-> env_books[token_id].bids, asks |-> env_books[token_id].asks]
    ELSE EmptyBook

\* A level of a book is a record with the field "size" as the API sends it:
\* <<n>> is a text float() reads as n, <<>> one it rejects ("n/a", null).
Level(n) == [size |-> <<n>>]
MalformedLevel == [size |-> <<>>]

\* float(b.get("size", 0)), where it does not raise
float_of(size) == IF Len(size) = 1 THEN size[1] ELSE 0

\* float(...) raises ValueError or TypeError on a size that is no number
float_raises(size) == Len(size) # 1

\* sum(float(b.get("size", 0)) for b in levels)
RECURSIVE SumSizes(_)
SumSizes(levels) ==
    IF Len(levels) = 0 THEN 0
    ELSE float_of(Head(levels).size) + SumSizes(Tail(levels))

\* polymarket.py lines 252-253: the sums raise what float() raises; nothing catches it
calculate_order_imbalance_raises(orderbook) ==
    \/ \E k \in DOMAIN orderbook.bids : float_raises(orderbook.bids[k].size)
    \/ \E k \in DOMAIN orderbook.asks : float_raises(orderbook.asks[k].size)

calculate_order_imbalance(orderbook) ==
    LET bid_volume == SumSizes(orderbook.bids)
        ask_volume == SumSizes(orderbook.asks)
        total      == bid_volume + ask_volume
    IN  IF total = 0 THEN RZero ELSE Rat(bid_volume - ask_volume, total)

\* ------------------------------------------------------------------------
\* SignalDetector: the five sub-detectors.  Each answers [score, evidence]
\* (the imbalance detector also direction).
\* ------------------------------------------------------------------------

HIGH_ABSOLUTE_VOLUME == 100000

\* _analyze_volume without the "score = max(score, 0.3)" of line 207
analyze_volume_no_absolute_floor(market) ==
    IF market.total_volume = 0 THEN [score |-> RZero, evidence |-> <<>>]
    ELSE
    LET expected_daily == Rat(market.total_volume, 30)
        spike == /\ RGt(expected_daily, RZero)
                 /\ RGt(RDiv(RInt(market.volume_24h), expected_daily),
                        VOLUME_SPIKE_THRESHOLD)
        score1 == IF spike
                  THEN RMin(RDiv(RSub(RDiv(RInt(market.volume_24h), expected_daily),
                                      ROne), RInt(5)), ROne)
                  ELSE RZero
        ev1 == IF spike THEN <<<<"Volume spike">>>> ELSE <<>>
        high == market.volume_24h > HIGH_ABSOLUTE_VOLUME
    IN  [score    |-> score1,
         evidence |-> IF high THEN Append(ev1, <<"High absolute volume">>) ELSE ev1]

\* _analyze_volume without the "total_volume == 0" return of lines 189-190
analyze_volume_no_zero_guard(market) ==
    LET expected_daily == Rat(market.total_volume, 30)
        spike == /\ RGt(expected_daily, RZero)
                 /\ RGt(RDiv(RInt(market.volume_24h), expected_daily),
                        VOLUME_SPIKE_THRESHOLD)
        score1 == IF spike
                  THEN RMin(RDiv(RSub(RDiv(RInt(market.volume_24h), expected_daily),
                                      ROne), RInt(5)), ROne)
                  ELSE RZero
        ev1 == IF spike THEN <<<<"Volume spike">>>> ELSE <<>>
        high == market.volume_24h > HIGH_ABSOLUTE_VOLUME
    IN  [score    |-> IF high THEN RMax(score1, Rat(3, 10)) ELSE score1,
         evidence |-> IF high THEN Append(ev1, <<"High absolute volume">>) ELSE ev1]

\* _analyze_volume with the test of line 206 nested in the spike branch: the
\* 0.3 is given only where the ratio is above the spike threshold
analyze_volume_floor_inside_spike(market) ==
    IF market.total_volume = 0 THEN [score |-> RZero, evidence |-> <<>>]
    ELSE
    LET expected_daily == Rat(market.total_volume, 30)
        spike == /\ RGt(expected_daily, RZero)
                 /\ RGt(RDiv(RInt(market.volume_24h), expected_daily),
                        VOLUME_SPIKE_THRESHOLD)
        score1 == IF spike
                  THEN RMin(RDiv(RSub(RDiv(RInt(market.volume_24h), expected_daily),
                                      ROne), RInt(5)), ROne)
                  ELSE RZero
        ev1 == IF spike THEN <<<<"Volume spike">>>> ELSE <<>>
        high == spike /\ market.volume_24h > HIGH_ABSOLUTE_VOLUME
    IN  [score    |-> IF high THEN RMax(score1, Rat(3, 10)) ELSE score1,
         evidence |-> IF high THEN Append(ev1, <<"High absolute volume">>) ELSE ev1]

analyze_volume(market) ==
    IF market.total_volume = 0 THEN [score |-> RZero, evidence |-> <<>>]
    ELSE
    LET expected_daily == Rat(market.total_volume, 30)
        spike == /\ RGt(expected_daily, RZero)
                 /\ RGt(RDiv(RInt(market.volume_24h), expected_daily),
                        VOLUME_SPIKE_THRESHOLD)
        score1 == IF spike
                  THEN RMin(RDiv(RSub(RDiv(RInt(market.volume_24h), expected_daily),
                                      ROne), RInt(5)), ROne)
                  ELSE RZero
        ev1 == IF spike THEN <<<<"Volume spike">>>> ELSE <<>>
        high == market.volume_24h > HIGH_ABSOLUTE_VOLUME
    IN  [score    |-> IF high THEN RMax(score1, Rat(3, 10)) ELSE score1,
         evidence |-> IF high THEN Append(ev1, <<"High absolute volume">>) ELSE ev1]

\* the index of the first token whose outcome is "yes", 0 when there is none
RECURSIVE FirstYes(_, _)
FirstYes(tokens, i) ==
    IF i > Len(tokens) THEN 0
    ELSE IF Lower(tokens[i].outcome) = "yes" THEN i
    ELSE FirstYes(tokens, i + 1)

\* _analyze_order_imbalance without the min(..., 1.0) of line 235
analyze_order_imbalance_unscaled(market) ==
    LET i == FirstYes(market.tokens, 1)
        neutral == [score |-> RZero, evidence |-> <<>>, direction |-> RZero]
    IN  IF i = 0 \/ ~Truthy(market.tokens[i].token_id) THEN neutral
        ELSE
        LET orderbook == get_orderbook(market.tokens[i].token_id)
            imbalance == calculate_order_imbalance(orderbook)
        IN  IF RGt(RAbs(imbalance), ORDER_IMBALANCE_THRESHOLD)
            THEN [score     |-> RDiv(RAbs(imbalance), Rat(1, 2)),
                  evidence  |-> IF RGt(imbalance, RZero)
                                THEN <<<<"Strong buy pressure">>>>
                                ELSE <<<<"Strong sell pressure">>>>,
                  direction |-> imbalance]
            ELSE neutral

\* _analyze_order_imbalance with "abs(imbalance) >= threshold" at line 234
analyze_order_imbalance_threshold_inclusive(market) ==
    LET i == FirstYes(market.tokens, 1)
        neutral == [score |-> RZero, evidence |-> <<>>, direction |-> RZero]
    IN  IF i = 0 \/ ~Truthy(market.tokens[i].token_id) THEN neutral
        ELSE
        LET orderbook == get_orderbook(market.tokens[i].token_id)
            imbalance == calculate_order_imbalance(orderbook)
        IN  IF RGe(RAbs(imbalance), ORDER_IMBALANCE_THRESHOLD)
            THEN [score     |-> RMin(RDiv(RAbs(imbalance), Rat(1, 2)), ROne),
                  evidence  |-> IF RGt(imbalance, RZero)
                                THEN <<<<"Strong buy pressure">>>>
                                ELSE <<<<"Strong sell pressure">>>>,
                  direction |-> imbalance]
            ELSE neutral

analyze_order_imbalance(market) ==
    LET i == FirstYes(market.tokens, 1)
        neutral == [score |-> RZero, evidence |-> <<>>, direction |-> RZero]
    IN  IF i = 0 \/ ~Truthy(market.tokens[i].token_id) THEN neutral
        ELSE
        LET orderbook == get_orderbook(market.tokens[i].token_id)
            imbalance == calculate_order_imbalance(orderbook)
        IN  IF RGt(RAbs(imbalance), ORDER_IMBALANCE_THRESHOLD)
            THEN [score     |-> RMin(RDiv(RAbs(imbalance), Rat(1, 2)), ROne),
                  evidence  |-> IF RGt(imbalance, RZero)
                                THEN <<<<"Strong buy pressure">>>>
                                ELSE <<<<"Strong sell pressure">>>>,
                  direction |-> imbalance]
            ELSE neutral

\* a book asked for each token that has an id, "yes" or not
RECURSIVE orderbook_requests_every_token(_)
orderbook_requests_every_token(market) ==
    IF market.tokens = <<>> THEN <<>>
    ELSE (IF Truthy(Head(market.tokens).token_id)
          THEN <<Head(market.tokens).token_id>> ELSE <<>>)
         \o orderbook_requests_every_token([market EXCEPT !.tokens = Tail(@)])

\* lines 226-230: the get_orderbook calls one _analyze_order_imbalance makes
\* (the loop over the tokens breaks at the first "yes" token)
orderbook_requests(market) ==
    LET i == FirstYes(market.tokens, 1)
    IN  IF i # 0 /\ Truthy(market.tokens[i].token_id)
        THEN <<market.tokens[i].token_id>> ELSE <<>>

\* _analyze_order_imbalance has no try: what calculate_order_imbalance raises
\* leaves it, and _analyze_market (line 118) does not catch it either
analyze_order_imbalance_raises(market) ==
    LET i == FirstYes(market.tokens, 1)
    IN  /\ i # 0
        /\ Truthy(market.tokens[i].token_id)
        /\ calculate_order_imbalance_raises(get_orderbook(market.tokens[i].token_id))

analyze_market_raises(market) == analyze_order_imbalance_raises(market)

political_keywords ==
    [president  |-> {"policy", "executive", "administration"},
     congress   |-> {"bill", "legislation", "law"},
     fed        |-> {"interest", "rate", "monetary"},
     sec        |-> {"securities", "regulation", "crypto"},
     trade      |-> {"tariff", "import", "export"},
     defense    |-> {"military", "pentagon", "war"},
     healthcare |-> {"medicare", "medicaid", "drug"},
     tech       |-> {"antitrust", "regulation", "privacy"}]

\* relevance selected by the topic's own name occurring in the question
trade_relevant_by_topic_name(market, trade) ==
    \E category \in DOMAIN political_keywords :
        /\ category \in market.question
        /\ \E kw \in political_keywords[category] : kw \in trade.company

\* A text (market.question.lower(), trade.company.lower()) is the set of the
\* words of this vocabulary that occur in it as substrings: "kw in text".
trade_relevant(market, trade) ==
    \E category \in DOMAIN political_keywords :
        /\ \E kw \in political_keywords[category] : kw \in market.question
        /\ \E kw \in political_keywords[category] : kw \in trade.company

LARGE_TRADE == 50000

\* the loop of lines 279-292 with "trade.amount_high > 50000" at line 291
RECURSIVE relevant_trades_above_threshold(_, _)
relevant_trades_above_threshold(market, trades) ==
    IF trades = <<>> THEN <<>>
    ELSE IF trade_relevant(market, Head(trades)) /\ Head(trades).amount_high > LARGE_TRADE
         THEN <<Head(trades)>> \o relevant_trades_above_threshold(market, Tail(trades))
         ELSE relevant_trades_above_threshold(market, Tail(trades))

RECURSIVE relevant_trades(_, _)
relevant_trades(market, trades) ==
    IF trades = <<>> THEN <<>>
    ELSE IF trade_relevant(market, Head(trades)) /\ Head(trades).amount_high >= LARGE_TRADE
         THEN <<Head(trades)>> \o relevant_trades(market, Tail(trades))
         ELSE relevant_trades(market, Tail(trades))

analyze_congress_correlation(market, congress_trades) ==
    LET rel == relevant_trades(market, congress_trades)
        top == SubSeq(rel, 1, IF Len(rel) < 3 THEN Len(rel) ELSE 3)
    IN  IF rel = <<>> THEN [score |-> RZero, evidence |-> <<>>]
        ELSE [score    |-> RMin(RMul(RInt(Len(rel)), Rat(2, 10)), ROne),
              evidence |-> [k \in 1..Len(top) |-> <<"Congressional trade", top[k].politician>>]]

CONVICTION_VOLUME == 10000
ACTIVE_VOLUME == 50000

\* _analyze_price_momentum with "yes_price >= 0.85 or yes_price <= 0.15" at line 317
analyze_price_momentum_extreme_inclusive(market) ==
    LET extreme == RGe(market.yes_price, Rat(85, 100)) \/ RLe(market.yes_price, Rat(15, 100))
        conviction == RMul(RAbs(RSub(market.yes_price, Rat(1, 2))), RInt(2))
        hit1 == extreme /\ market.volume_24h > CONVICTION_VOLUME
        score1 == IF hit1 THEN RMul(conviction, Rat(1, 2)) ELSE RZero
        ev1 == IF hit1 THEN <<<<"High conviction">>>> ELSE <<>>
        hit2 == /\ RLe(Rat(45, 100), market.yes_price)
                /\ RLe(market.yes_price, Rat(55, 100))
                /\ market.volume_24h > ACTIVE_VOLUME
    IN  [score    |-> IF hit2 THEN RMax(score1, Rat(3, 10)) ELSE score1,
         evidence |-> IF hit2 THEN Append(ev1, <<"Active price discovery">>) ELSE ev1]

\* _analyze_price_momentum without the "* 0.5" of line 320
analyze_price_momentum_full_conviction(market) ==
    LET extreme == RGt(market.yes_price, Rat(85, 100)) \/ RLt(market.yes_price, Rat(15, 100))
        conviction == RMul(RAbs(RSub(market.yes_price, Rat(1, 2))), RInt(2))
        hit1 == extreme /\ market.volume_24h > CONVICTION_VOLUME
        score1 == IF hit1 THEN conviction ELSE RZero
        ev1 == IF hit1 THEN <<<<"High conviction">>>> ELSE <<>>
        hit2 == /\ RLe(Rat(45, 100), market.yes_price)
                /\ RLe(market.yes_price, Rat(55, 100))
                /\ market.volume_24h > ACTIVE_VOLUME
    IN  [score    |-> IF hit2 THEN RMax(score1, Rat(3, 10)) ELSE score1,
         evidence |-> IF hit2 THEN Append(ev1, <<"Active price discovery">>) ELSE ev1]

analyze_price_momentum(market) ==
    LET extreme == RGt(market.yes_price, Rat(85, 100)) \/ RLt(market.yes_price, Rat(15, 100))
        conviction == RMul(RAbs(RSub(market.yes_price, Rat(1, 2))), RInt(2))
        hit1 == extreme /\ market.volume_24h > CONVICTION_VOLUME
        score1 == IF hit1 THEN RMul(conviction, Rat(1, 2)) ELSE RZero
        ev1 == IF hit1 THEN <<<<"High conviction">>>> ELSE <<>>
        hit2 == /\ RLe(Rat(45, 100), market.yes_price)
                /\ RLe(market.yes_price, Rat(55, 100))
                /\ market.volume_24h > ACTIVE_VOLUME
    IN  [score    |-> IF hit2 THEN RMax(score1, Rat(3, 10)) ELSE score1,
         evidence |-> IF hit2 THEN Append(ev1, <<"Active price discovery">>) ELSE ev1]

HOURS_PER_DAY == 24
RESOLUTION_WINDOW_DAYS == 7

\* _analyze_timing measuring the time to the end date exactly, in hours,
\* where line 349 takes the whole days of it
analyze_timing_exact_time(market) ==
    IF market.end_date = None THEN [score |-> RZero, evidence |-> <<>>]
    ELSE
    LET hours_to_resolution == market.end_date[1] - now
    IN  IF 0 < hours_to_resolution
           /\ hours_to_resolution <= RESOLUTION_WINDOW_DAYS * HOURS_PER_DAY
        THEN IF market.volume_24h > ACTIVE_VOLUME
             THEN [score |-> Rat(7, 10),
                   evidence |-> <<<<"Near resolution">>, <<"High volume near resolution">>>>]
             ELSE [score |-> Rat(4, 10), evidence |-> <<<<"Near resolution">>>>]
        ELSE [score |-> RZero, evidence |-> <<>>]

analyze_timing(market) ==
    IF market.end_date = None THEN [score |-> RZero, evidence |-> <<>>]
    ELSE
    LET days_to_resolution == (market.end_date[1] - now) \div HOURS_PER_DAY
    IN  IF 0 < days_to_resolution /\ days_to_resolution <= RESOLUTION_WINDOW_DAYS
        THEN IF market.volume_24h > ACTIVE_VOLUME
             THEN [score |-> Rat(7, 10),
                   evidence |-> <<<<"Near resolution">>, <<"High volume near resolution">>>>]
             ELSE [score |-> Rat(4, 10), evidence |-> <<<<"Near resolution">>>>]
        ELSE [score |-> RZero, evidence |-> <<>>]

\* ------------------------------------------------------------------------
\* SignalDetector._analyze_market: combiner, direction/edge resolver
\* ------------------------------------------------------------------------

\* scores, as the dict _analyze_market fills
sub_scores(market, congress_trades) ==
    [volume_spike         |-> analyze_volume(market).score,
     order_imbalance      |-> analyze_order_imbalance(market).score,
     congress_correlation |-> analyze_congress_correlation(market, congress_trades).score,
     price_momentum       |-> analyze_price_momentum(market).score,
     timing_pattern       |-> analyze_timing(market).score]

sub_evidence(market, congress_trades) ==
    analyze_volume(market).evidence
    \o analyze_order_imbalance(market).evidence
    \o analyze_congress_correlation(market, congress_trades).evidence
    \o analyze_price_momentum(market).evidence
    \o analyze_timing(market).evidence

\* sum(scores[key] * WEIGHTS[key] for key in scores)
RECURSIVE weighted_sum(_, _)
weighted_sum(scores, i) ==
    IF i > Len(ScoreKeys) THEN RZero
    ELSE RAdd(RMul(scores[ScoreKeys[i]], WEIGHTS[ScoreKeys[i]]),
              weighted_sum(scores, i + 1))

combined_confidence(scores) == weighted_sum(scores, 1)

\* max() run over the keys in the order of the WEIGHTS table
max_signal_weight_table_order(scores) ==
    LET order == <<"order_imbalance", "volume_spike", "congress_correlation",
                   "price_momentum", "timing_pattern">>
        best(i) == \A j \in 1..Len(order) : RLe(scores[order[j]], scores[order[i]])
        first == CHOOSE i \in 1..Len(order) :
                    best(i) /\ \A j \in 1..(i - 1) : ~best(j)
    IN  order[first]

\* max(scores, key=scores.get): the first key, in the dict's order, whose
\* score no other key's score exceeds
max_signal(scores) ==
    LET best(i) == \A j \in 1..Len(ScoreKeys) : RLe(scores[ScoreKeys[j]], scores[ScoreKeys[i]])
        first == CHOOSE i \in 1..Len(ScoreKeys) :
                    best(i) /\ \A j \in 1..(i - 1) : ~best(j)
    IN  ScoreKeys[first]

EDGE_CAP == Rat(15, 100)

\* lines 148-157: position and edge from the direction signal
resolve_position(direction) ==
    IF RGt(direction, RZero)
    THEN [recommended_position |-> "YES",
          expected_edge |-> RMin(RMul(direction, Rat(1, 10)), EDGE_CAP)]
    ELSE IF RLt(direction, RZero)
    THEN [recommended_position |-> "NO",
          expected_edge |-> RMin(RMul(RAbs(direction), Rat(1, 10)), EDGE_CAP)]
    ELSE [recommended_position |-> "ABSTAIN", expected_edge |-> RZero]

\* analyze_market without the "too low to report" test of lines 145-146
analyze_market_no_floor(market, congress_trades) ==
    LET scores     == sub_scores(market, congress_trades)
        confidence == combined_confidence(scores)
        direction  == analyze_order_imbalance(market).direction
        resolved   == resolve_position(direction)
    IN  <<[market               |-> market,
           signal_type          |-> max_signal(scores),
           confidence           |-> RMin(confidence, ROne),
           evidence             |-> sub_evidence(market, congress_trades),
           recommended_position |-> resolved.recommended_position,
           expected_edge        |-> resolved.expected_edge]>>

\* analyze_market taking a position only once the confidence reaches the
\* recommendation threshold
analyze_market_position_by_confidence(market, congress_trades) ==
    LET scores     == sub_scores(market, congress_trades)
        confidence == combined_confidence(scores)
        direction  == analyze_order_imbalance(market).direction
        resolved   == resolve_position(IF RGe(confidence, CONFIDENCE_THRESHOLD)
                                       THEN direction ELSE RZero)
    IN  IF RLt(confidence, REPORT_FLOOR) THEN <<>>
        ELSE <<[market               |-> market,
                signal_type          |-> max_signal(scores),
                confidence           |-> RMin(confidence, ROne),
                evidence             |-> sub_evidence(market, congress_trades),
                recommended_position |-> resolved.recommended_position,
                expected_edge        |-> resolved.expected_edge]>>

\* Optional[InsiderSignal]: <<>> is None, <<signal>> a signal
\* _analyze_market giving the market up when its book has no level
analyze_market_none_without_book(market, congress_trades) ==
    LET scores     == sub_scores(market, congress_trades)
        confidence == combined_confidence(scores)
        direction  == analyze_order_imbalance(market).direction
        resolved   == resolve_position(direction)
        requests   == orderbook_requests(market)
        no_level   == /\ requests # <<>>
                      /\ Len(get_orderbook(requests[1]).bids) = 0
                      /\ Len(get_orderbook(requests[1]).asks) = 0
    IN  IF RLt(confidence, REPORT_FLOOR) \/ no_level THEN <<>>
        ELSE <<[market               |-> market,
                signal_type          |-> max_signal(scores),
                confidence           |-> RMin(confidence, ROne),
                evidence             |-> sub_evidence(market, congress_trades),
                recommended_position |-> resolved.recommended_position,
                expected_edge        |-> resolved.expected_edge]>>

analyze_market(market, congress_trades) ==
    LET scores     == sub_scores(market, congress_trades)
        confidence == combined_confidence(scores)
        direction  == analyze_order_imbalance(market).direction
        resolved   == resolve_position(direction)
    IN  IF RLt(confidence, REPORT_FLOOR) THEN <<>>
        ELSE <<[market               |-> market,
                signal_type          |-> max_signal(scores),
                confidence           |-> RMin(confidence, ROne),
                evidence             |-> sub_evidence(market, congress_trades),
                recommended_position |-> resolved.recommended_position,
                expected_edge        |-> resolved.expected_edge]>>

\* ------------------------------------------------------------------------
\* calculate_kelly_fraction
\* ------------------------------------------------------------------------

KELLY_CAP == Rat(25, 100)

\* calculate_kelly_fraction without the 25% cap of line 394
calculate_kelly_fraction_no_cap(edge, odds) ==
    IF RLe(edge, RZero) \/ RLe(odds, ROne) THEN RZero
    ELSE
    LET market_prob == RDiv(ROne, odds)
        true_prob   == RAdd(market_prob, edge)
        kelly       == RDiv(RSub(RMul(true_prob, odds), ROne), RSub(odds, ROne))
    IN  RMax(RZero, RMul(kelly, Rat(1, 2)))

\* calculate_kelly_fraction without the halving of line 394 (full Kelly)
calculate_kelly_fraction_full_kelly(edge, odds) ==
    IF RLe(edge, RZero) \/ RLe(odds, ROne) THEN RZero
    ELSE
    LET market_prob == RDiv(ROne, odds)
        true_prob   == RAdd(market_prob, edge)
        kelly       == RDiv(RSub(RMul(true_prob, odds), ROne), RSub(odds, ROne))
    IN  RMax(RZero, RMin(kelly, KELLY_CAP))

\* calculate_kelly_fraction with the formula of its docstring,
\* (p * odds - (1 - p)) / odds, in the place of line 391
calculate_kelly_fraction_docstring_formula(edge, odds) ==
    IF RLe(edge, RZero) \/ RLe(odds, ROne) THEN RZero
    ELSE
    LET market_prob == RDiv(ROne, odds)
        true_prob   == RAdd(market_prob, edge)
        kelly       == RDiv(RSub(RMul(true_prob, odds), RSub(ROne, true_prob)), odds)
    IN  RMax(RZero, RMin(RMul(kelly, Rat(1, 2)), KELLY_CAP))

calculate_kelly_fraction(edge, odds) ==
    IF RLe(edge, RZero) \/ RLe(odds, ROne) THEN RZero
    ELSE
    LET market_prob == RDiv(ROne, odds)
        true_prob   == RAdd(market_prob, edge)
        kelly       == RDiv(RSub(RMul(true_prob, odds), ROne), RSub(odds, ROne))
    IN  RMax(RZero, RMin(RMul(kelly, Rat(1, 2)), KELLY_CAP))

\* ------------------------------------------------------------------------
\* RecommendationEngine._signal_to_recommendation
\* ------------------------------------------------------------------------

\* Market.trade_url: f"https://polymarket.com/event/{self.slug}"
trade_url(market) == <<"https://polymarket.com/event/", market.slug>>

\* _signal_to_recommendation pricing the NO side as 1 - yes_price
signal_to_recommendation_complement_price(sig) ==
    LET market == sig.market
        yes == sig.recommended_position = "YES"
        current_price == IF yes THEN market.yes_price ELSE RSub(ROne, market.yes_price)
        suggested_size ==
            IF RGt(current_price, RZero) /\ RLt(current_price, ROne)
            THEN calculate_kelly_fraction(sig.expected_edge, RDiv(ROne, current_price))
            ELSE RZero
    IN  [market_question    |-> market.question,
         position           |-> IF yes THEN "BUY YES" ELSE "BUY NO",
         confidence         |-> sig.confidence,
         current_price      |-> current_price,
         expected_edge      |-> sig.expected_edge,
         suggested_size_pct |-> RMul(suggested_size, RInt(100)),
         signal_type        |-> sig.signal_type,
         evidence           |-> sig.evidence,
         trade_url          |-> trade_url(market),
         polymarket_url     |-> market.url,
         expires            |-> market.end_date]

signal_to_recommendation(sig) ==
    LET market == sig.market
        yes == sig.recommended_position = "YES"
        current_price == IF yes THEN market.yes_price ELSE market.no_price
        suggested_size ==
            IF RGt(current_price, RZero) /\ RLt(current_price, ROne)
            THEN calculate_kelly_fraction(sig.expected_edge, RDiv(ROne, current_price))
            ELSE RZero
    IN  [market_question    |-> market.question,
         position           |-> IF yes THEN "BUY YES" ELSE "BUY NO",
         confidence         |-> sig.confidence,
         current_price      |-> current_price,
         expected_edge      |-> sig.expected_edge,
         suggested_size_pct |-> RMul(suggested_size, RInt(100)),
         signal_type        |-> sig.signal_type,
         evidence           |-> sig.evidence,
         trade_url          |-> trade_url(market),
         polymarket_url     |-> market.url,
         expires            |-> market.end_date]

\* ------------------------------------------------------------------------
\* SignalDetector.scan_markets: signals.sort(key=confidence, reverse=True)
\* list.sort is stable, also with reverse=True: equal keys keep their order
\* ------------------------------------------------------------------------

\* an unstable sort: s put ahead of the elements whose confidence equals its own
insert_sorted_ties_reversed(sorted, s) ==
    LET ahead == {k \in 1..Len(sorted) : RGt(sorted[k].confidence, s.confidence)}
        n == Cardinality(ahead)
    IN  SubSeq(sorted, 1, n) \o <<s>> \o SubSeq(sorted, n + 1, Len(sorted))

\* s put behind every element of the descending list whose confidence is >= its own
insert_sorted(sorted, s) ==
    LET ahead == {k \in 1..Len(sorted) : RGe(sorted[k].confidence, s.confidence)}
        n == Cardinality(ahead)
    IN  SubSeq(sorted, 1, n) \o <<s>> \o SubSeq(sorted, n + 1, Len(sorted))

RECURSIVE sort_from(_, _, _)
sort_from(sigs, i, acc) ==
    IF i > Len(sigs) THEN acc
    ELSE sort_from(sigs, i + 1, insert_sorted(acc, sigs[i]))

\* scan_markets without the sort of line 95: the signals in the order analysed
sort_by_confidence_left_out(sigs) == sigs

sort_by_confidence(sigs) == sort_from(sigs, 1, <<>>)

\* ------------------------------------------------------------------------
\* feeds.py: DataFeed, DataFeedManager
\* ------------------------------------------------------------------------

HealthStatus == {"HEALTHY", "DEGRADED", "DOWN", "UNKNOWN", "NOT_CONFIGURED"}

\* DataFeed(...) as _initialize_feeds builds it: the fields the health check
\* reads, and the defaults of the fields it writes.  An Optional field is
\* None or <<value>>; has_endpoint says whether api_endpoint is a URL.
DataFeed(has_endpoint, requires_auth, auth_type) ==
    [api_endpoint     |-> IF has_endpoint THEN <<"url">> ELSE None,
     requires_auth    |-> requires_auth,
     auth_type        |-> auth_type,
     status           |-> "UNKNOWN",
     last_check       |-> None,
     last_success     |-> None,
     response_time_ms |-> None,
     error_message    |-> None,
     sample_data      |-> None,
     data_points_24h  |-> 0]

\* _initialize_feeds: the feeds dict
initialize_feeds ==
    [polymarket_gamma     |-> DataFeed(TRUE, FALSE, None),
     polymarket_clob      |-> DataFeed(TRUE, FALSE, None),
     kalshi               |-> DataFeed(TRUE, FALSE, None),
     polygon_rpc          |-> DataFeed(TRUE, FALSE, None),
     the_graph            |-> DataFeed(FALSE, FALSE, None),
     dune_analytics       |-> DataFeed(TRUE, TRUE, <<"api_key">>),
     bitquery             |-> DataFeed(TRUE, TRUE, <<"api_key">>),
     house_stock_watcher  |-> DataFeed(TRUE, FALSE, None),
     senate_stock_watcher |-> DataFeed(TRUE, FALSE, None),
     quiver_quant         |-> DataFeed(TRUE, TRUE, <<"api_key">>),
     capitol_trades       |-> DataFeed(FALSE, FALSE, None),
     sec_edgar            |-> DataFeed(TRUE, FALSE, None),
     federal_register     |-> DataFeed(TRUE, FALSE, None),
     lobbying_senate      |-> DataFeed(FALSE, TRUE, <<"registration">>),
     adsb_exchange        |-> DataFeed(TRUE, TRUE, <<"api_key">>),
     court_listener       |-> DataFeed(TRUE, TRUE, <<"api_key">>),
     coresignal           |-> DataFeed(FALSE, TRUE, <<"api_key">>),
     cert_transparency    |-> DataFeed(TRUE, FALSE, None),
     unusual_whales       |-> DataFeed(FALSE, TRUE, <<"subscription">>),
     finra_shorts         |-> DataFeed(FALSE, FALSE, None),
     finfeed_api          |-> DataFeed(FALSE, TRUE, <<"api_key">>),
     eventarb             |-> DataFeed(FALSE, FALSE, None)]

\* What session.get(...) does: it answers (status_code, and a body that is a
\* JSON list of `size` elements, a JSON dict of `size` keys, another JSON
\* value, or no JSON, a text of `size` characters), or it raises (Timeout,
\* ConnectionError, another exception whose str() has `size` characters).
Response(kind, status_code, json, size) ==
    [kind |-> kind, status_code |-> status_code, json |-> json, size |-> size]

\* int((time.time() - start_time) * 1000): a time measured, below the timeout
elapsed_ms == 120

\* lines 356-365: the two returns ahead of the request
no_endpoint(feed) == feed.api_endpoint = None
needs_credentials(feed) ==
    feed.requires_auth /\ feed.auth_type \in {<<"api_key">>, <<"oauth">>}
sends_request(feed) == ~no_endpoint(feed) /\ ~needs_credentials(feed)

Shorter(a, b) == IF a < b THEN a ELSE b

\* lines 381-392: sample_data and data_points_24h after a 200
sample_of(feed, response) ==
    CASE response.json = "list" /\ response.size > 0 ->
            [feed EXCEPT !.sample_data = <<"count", response.size>>,
                         !.data_points_24h = response.size]
      [] response.json = "dict" ->
            [feed EXCEPT !.sample_data = <<"keys", Shorter(response.size, 5)>>,
                         !.data_points_24h = 1]
      [] response.json = "invalid" ->
            [feed EXCEPT !.sample_data = <<"raw_length", response.size>>]
      [] OTHER -> feed

\* lines 367-413 with error_message left as it was after a 200 (line 380 missing)
answered_keeps_error_message(feed, response, time) ==
    CASE response.kind = "Timeout" ->
            [feed EXCEPT !.status = "DOWN", !.error_message = <<"Timeout">>,
                         !.response_time_ms = <<10000>>]
      [] response.kind = "ConnectionError" ->
            [feed EXCEPT !.status = "DOWN", !.error_message = <<"Connection failed">>]
      [] response.kind = "Exception" ->
            [feed EXCEPT !.status = "DOWN",
                         !.error_message = <<"str(e)[:100]", Shorter(response.size, 100)>>]
      [] OTHER ->
            LET timed == [feed EXCEPT !.response_time_ms = <<elapsed_ms>>]
            IN  IF response.status_code = 200
                THEN sample_of([timed EXCEPT !.status = "HEALTHY",
                                             !.last_success = <<time>>],
                               response)
                ELSE IF response.status_code = 429
                THEN [timed EXCEPT !.status = "DEGRADED",
                                   !.error_message = <<"Rate limited">>]
                ELSE IF response.status_code \in {401, 403}
                THEN [timed EXCEPT !.status = "NOT_CONFIGURED",
                                   !.error_message = <<"Authentication required">>]
                ELSE [timed EXCEPT !.status = "DOWN",
                                   !.error_message = <<"HTTP", response.status_code>>]

\* lines 367-413: the request was sent and `response` is what came of it
answered(feed, response, time) ==
    CASE response.kind = "Timeout" ->
            [feed EXCEPT !.status = "DOWN", !.error_message = <<"Timeout">>,
                         !.response_time_ms = <<10000>>]
      [] response.kind = "ConnectionError" ->
            [feed EXCEPT !.status = "DOWN", !.error_message = <<"Connection failed">>]
      [] response.kind = "Exception" ->
            [feed EXCEPT !.status = "DOWN",
                         !.error_message = <<"str(e)[:100]", Shorter(response.size, 100)>>]
      [] OTHER ->
            LET timed == [feed EXCEPT !.response_time_ms = <<elapsed_ms>>]
            IN  IF response.status_code = 200
                THEN sample_of([timed EXCEPT !.status = "HEALTHY",
                                             !.last_success = <<time>>,
                                             !.error_message = None],
                               response)
                ELSE IF response.status_code = 429
                THEN [timed EXCEPT !.status = "DEGRADED",
                                   !.error_message = <<"Rate limited">>]
                ELSE IF response.status_code \in {401, 403}
                THEN [timed EXCEPT !.status = "NOT_CONFIGURED",
                                   !.error_message = <<"Authentication required">>]
                ELSE [timed EXCEPT !.status = "DOWN",
                                   !.error_message = <<"HTTP", response.status_code>>]

\* check_feed_health for a feed of the dict (lines 353-415): the feed after it
checked(feed, response, time) ==
    LET stamped == [feed EXCEPT !.last_check = <<time>>]
    IN  IF no_endpoint(feed)
        THEN [stamped EXCEPT !.status = "NOT_CONFIGURED",
                             !.error_message = <<"No API endpoint configured">>]
        ELSE IF needs_credentials(feed)
        THEN [stamped EXCEPT !.status = "NOT_CONFIGURED",
                             !.error_message =
                                 <<"Requires", feed.auth_type[1], "authentication">>]
        ELSE answered(stamped, response, time)

\* ------------------------------------------------------------------------
\* The program state
\* ------------------------------------------------------------------------

VARIABLES
    pc,               \* where the call stands
    caller,           \* "recs": get_recommendations, "scan": scan_markets called directly
    min_confidence,   \* get_recommendations' arguments
    max_results,
    markets,          \* scan_markets' locals
    congress_trades,
    idx,              \* the position of "for market in markets"
    signal,           \* what _analyze_market answered last: <<>> is None
    signals,
    sidx,             \* the position of "for signal in signals"
    recommendations,
    result,           \* what the call returned: <<>> before it has, <<list>> after
    run,              \* 1, and 2 for the repeated call on the same inputs
    first_result,     \* what the first call returned
    kelly_edge,       \* calculate_kelly_fraction called on its own
    kelly_odds,
    kelly_result,
    trade_fetches,    \* the calls of get_recent_trades this scan has made
    analyzed,         \* the calls of _analyze_market: the market and the trades passed
    book_fetches,     \* the calls of get_orderbook: the token ids, in order
    feeds,            \* DataFeedManager.feeds: <<>> while no manager is constructed
    feed_requests,    \* the feeds session.get has been called for
    feed_call,        \* the last call of the manager and how it ended
    feed_clock        \* datetime.now(), counted in calls of the manager

env_vars == <<env_markets, env_books, env_trades, now>>
call_vars == <<pc, caller, min_confidence, max_results, markets, congress_trades,
               idx, signal, signals, sidx, recommendations, result, run, first_result>>
kelly_vars == <<kelly_edge, kelly_odds, kelly_result>>
scan_calls == <<trade_fetches, analyzed, book_fetches>>
feed_vars == <<feeds, feed_requests, feed_call, feed_clock>>
vars == <<env_markets, env_books, env_trades, now,
          pc, caller, min_confidence, max_results, markets, congress_trades,
          idx, signal, signals, sidx, recommendations, result, run, first_result,
          kelly_edge, kelly_odds, kelly_result,
          trade_fetches, analyzed, book_fetches,
          feeds, feed_requests, feed_call, feed_clock>>

\* ------------------------------------------------------------------------
\* Inputs
\* ------------------------------------------------------------------------

MaxMarkets == 2
MaxResults == 2

\* the tokens list of a market item: the usual pair, no "yes" token, a "yes"
\* token without token_id, the "yes" token listed second
Tokens(kind, id) ==
    CASE kind = "std"     -> <<[outcome |-> "Yes", token_id |-> id],
                               [outcome |-> "No", token_id |-> id + 100]>>
      [] kind = "swapped" -> <<[outcome |-> "No", token_id |-> id + 100],
                               [outcome |-> "YES", token_id |-> id]>>
      [] kind = "noid"    -> <<[outcome |-> "Yes", token_id |-> 0],
                               [outcome |-> "No", token_id |-> id + 100]>>
      [] OTHER            -> <<>>

\* Market(...) as get_markets builds it from an item (lines 115-128)
Market(id, item) ==
    [id           |-> id,
     question     |-> item.question,
     slug         |-> id,
     yes_price    |-> item.yes_price,
     no_price     |-> item.no_price,
     volume_24h   |-> item.volume_24h,
     total_volume |-> item.total_volume,
     end_date     |-> item.end_date,
     url          |-> <<"https://polymarket.com/event/", id>>,
     tokens       |-> Tokens(item.tokens, id)]

Item(q, yp, np, v24, tv, end, tk, bk) ==
    [question |-> q, yes_price |-> yp, no_price |-> np, volume_24h |-> v24,
     total_volume |-> tv, end_date |-> end, tokens |-> tk, book |-> bk]

Levels(sizes) == [k \in DOMAIN sizes |-> Level(sizes[k])]
Book(bids, asks) == [ok |-> TRUE, bids |-> Levels(bids), asks |-> Levels(asks)]
\* bids of 600 and of "n/a", asks of 200
MalformedBook ==
    [ok |-> TRUE, bids |-> <<Level(600), MalformedLevel>>, asks |-> <<Level(200)>>]
FailedFetch == [ok |-> FALSE, bids |-> <<>>, asks |-> <<>>]

Trade(politician, company, amount_high) ==
    [politician |-> politician, company |-> company, amount_high |-> amount_high]

\* six large trades in rate funds, one small one, one large unrelated one
ManyTrades ==
    <<Trade("P1", {"rate"}, 60000), Trade("P2", {"rate", "interest"}, 50000),
      Trade("P3", {"rate"}, 250000), Trade("P4", {"rate"}, 100000),
      Trade("P5", {"monetary"}, 75000), Trade("P6", {"rate"}, 49999),
      Trade("P7", {"war"}, 90000), Trade("P8", {"rate"}, 500000)>>
FiveTrades == SubSeq(ManyTrades, 1, 7)
TwoTrades == SubSeq(ManyTrades, 1, 2)

\* --- one market at a time: the grid scan_markets is run over ------------

Questions == {{}, {"rate"}, {"fed"}}
YesPrices == {Rat(5, 100), Rat(50, 100), Rat(72, 100), Rat(95, 100)}
Volumes24h == {0, 20000, 90000, 847000}
TotalVolumes == {0, 600000, 12500000}
EndDates == {None, <<-30>>, <<12>>, <<72>>, <<200>>}
Books ==
    {FailedFetch, Book(<<>>, <<>>),
     Book(<<400, 200>>, <<200>>), Book(<<200>>, <<400, 200>>),
     Book(<<700>>, <<300>>), Book(<<300>>, <<700>>),
     Book(<<500>>, <<500>>), Book(<<650>>, <<350>>),
     Book(<<800>>, <<>>), Book(<<>>, <<800>>),
     \* a malformed level with a negative size: imbalance 1200/600 = 2
     Book(<<900>>, <<-300>>),
     MalformedBook}
TokensAndBooks ==
    ({"std"} \X Books) \cup ({"swapped", "noid", "none"} \X {Book(<<400, 200>>, <<200>>)})
TradeLists == {<<>>, TwoTrades, ManyTrades}

GridItems ==
    {Item(q, yp, Rat(28, 100), v24, tv, end, tb[1], tb[2]) :
        q \in Questions, yp \in YesPrices, v24 \in Volumes24h,
        tv \in TotalVolumes, end \in EndDates, tb \in TokensAndBooks}

\* --- one market at a time, at the thresholds of the sub-detectors --------
\* Each sub-detector reads fields of its own: each slice varies the fields of
\* one of them and keeps the others at the values of a regular market.

RegularBook == Book(<<700>>, <<300>>)

ThresholdPrices == {Rat(n, 100) : n \in {0, 5, 14, 15, 45, 50, 55, 56, 85, 86, 95, 100}}
ThresholdVolumes == {0, 10000, 10100, 50000, 50100, 847000}
PriceSlice ==
    {Item({}, yp, Rat(28, 100), v24, 600000, <<72>>, "std", RegularBook) :
        yp \in ThresholdPrices, v24 \in ThresholdVolumes}

\* hours from now: past, 0, under a day, a day, 3 days, 7 days 23 hours, 8 days
ThresholdEndDates ==
    {None, <<-30>>, <<0>>, <<12>>, <<23>>, <<24>>, <<72>>, <<191>>, <<192>>, <<200>>}
TimingSlice ==
    {Item({}, Rat(72, 100), Rat(28, 100), v24, 600000, end, "std", RegularBook) :
        end \in ThresholdEndDates, v24 \in {0, 50000, 50100}}

\* with total_volume 600000 the expected daily volume is 20000: ratios 2, 5, 6
VolumeSlice ==
    {Item({}, Rat(72, 100), Rat(28, 100), v24, tv, <<72>>, "std", RegularBook) :
        v24 \in {0, 40000, 40100, 100000, 100100, 120000, 847000},
        tv \in {0, 600000, 12500000}}

\* each book under a question without keyword and under one the trades match
BookSlice ==
    {Item(q, Rat(72, 100), Rat(28, 100), 847000, 600000, <<72>>, tb[1], tb[2]) :
        q \in {{}, {"rate"}}, tb \in TokensAndBooks}

QuestionSlice ==
    {Item(q, Rat(72, 100), Rat(28, 100), 847000, 600000, <<72>>, "std", RegularBook) :
        q \in {{}, {"rate"}, {"fed"}, {"fed", "rate"}, {"regulation"}, {"war"}}}

\* every sub-score at its highest: 1, 1, 1 (with five trades or more), 0.5, 0.7
ItemM == Item({"rate"}, Rat(1, 1), Rat(0, 1), 847000, 600000, <<72>>, "std",
              Book(<<800>>, <<>>))

DetectItems ==
    PriceSlice \cup TimingSlice \cup VolumeSlice \cup BookSlice \cup QuestionSlice
    \cup {ItemM}

\* large trades in a crypto fund, in a privacy firm and in an importer
SectorTrades ==
    <<Trade("P9", {"crypto"}, 80000), Trade("P10", {"privacy"}, 80000),
      Trade("P11", {"import"}, 80000)>>
DetectTradeLists == TradeLists \cup {SectorTrades}

\* --- several markets: the catalogue get_recommendations is run over -----

\* 0.51, YES, volume_spike the dominant signal
ItemA == Item({}, Rat(72, 100), Rat(28, 100), 847000, 600000, <<72>>, "std",
              Book(<<700>>, <<300>>))
\* 0.51, YES, order_imbalance the dominant signal
ItemB == Item({}, Rat(90, 100), Rat(12, 100), 90000, 600000, <<72>>, "std",
              Book(<<700>>, <<300>>))
\* 0.43, NO
ItemC == Item({}, Rat(72, 100), Rat(40, 100), 847000, 12500000, <<72>>, "std",
              Book(<<200>>, <<400, 200>>))
\* no order book: ABSTAIN; 0.33 without trades, 0.58 with them
ItemD == Item({"rate"}, Rat(90, 100), Rat(10, 100), 847000, 600000, <<72>>, "std",
              FailedFetch)
\* every sub-score 0
ItemE == Item({}, Rat(50, 100), Rat(50, 100), 0, 0, None, "std",
              Book(<<500>>, <<500>>))
\* 0.30 without trades, 0.55 with them, YES
ItemF == Item({"rate"}, Rat(72, 100), Rat(28, 100), 20000, 600000, None, "std",
              Book(<<400, 200>>, <<200>>))
\* 0.6375, NO
ItemG == Item({}, Rat(5, 100), Rat(96, 100), 847000, 600000, <<72>>, "std",
              Book(<<200>>, <<400, 200>>))

\* imbalance exactly 0.3, not above the threshold: ABSTAIN; 0.5875 with the trades
ItemH == Item({"rate"}, Rat(95, 100), Rat(5, 100), 847000, 600000, <<72>>, "std",
              Book(<<650>>, <<350>>))

\* 0.57, YES at 0.72 with a book of bids only: imbalance 1, edge 0.10
ItemI == Item({}, Rat(72, 100), Rat(28, 100), 847000, 600000, <<72>>, "std",
              Book(<<800>>, <<>>))

\* like ItemI, with a level of the book that is no number
ItemJ == Item({}, Rat(72, 100), Rat(28, 100), 847000, 600000, <<72>>, "std",
              MalformedBook)

\* YES at a price of 1, no volume baseline; 0.445 without trades, 0.695 with them
ItemK == Item({"rate"}, Rat(1, 1), Rat(0, 1), 847000, 0, <<72>>, "std",
              Book(<<800>>, <<>>))
\* a book whose levels all have size 0: ABSTAIN; 0.5875 with the trades
ItemL == Item({"rate"}, Rat(95, 100), Rat(5, 100), 847000, 600000, <<72>>, "std",
              Book(<<0>>, <<0, 0>>))

Catalogue == {ItemA, ItemB, ItemC, ItemD, ItemE, ItemF, ItemG, ItemH}

\* the markets with malformed and degenerate fields, next to two regular ones
EdgeCatalogue == {ItemA, ItemG, ItemI, ItemJ, ItemK, ItemL}

\* markets of equal and of different confidence, for scans in another order
ReorderCatalogue == {ItemA, ItemB, ItemF, ItemG}

\* --- the data feeds ------------------------------------------------------

MaxChecks == 2

\* The manager is run over a part of the table: two feeds it can request,
\* one without endpoint, one with endpoint that needs an API key, one without
\* endpoint that needs a registration, one without endpoint that needs a key.
MonitoredFeeds ==
    {"polymarket_gamma", "kalshi", "the_graph", "dune_analytics",
     "lobbying_senate", "coresignal"}

\* the ids check_feed_health is called with: the last one is in no table
FeedIds == MonitoredFeeds \cup {"cftc_reports"}

Responses ==
    {Response("response", 200, "list", 3), Response("response", 200, "list", 0),
     Response("response", 200, "dict", 7), Response("response", 200, "invalid", 15),
     Response("response", 429, "none", 0), Response("response", 401, "none", 0),
     Response("response", 403, "none", 0), Response("response", 500, "none", 0),
     Response("Timeout", 0, "none", 0), Response("ConnectionError", 0, "none", 0),
     Response("Exception", 0, "none", 0), Response("Exception", 0, "none", 250)}

MinConfidences == {RZero, Rat(3, 10), Rat(51, 100), Rat(9, 10)}

KellyEdges == {Rat(n, 100) : n \in {-5, 0, 1, 3, 5, 10, 15, 50, 100}}
KellyOdds == {Rat(n, 4) : n \in -4..40} \cup {Rat(25, 18), Rat(100, 99), Rat(100, 1)}

\* ------------------------------------------------------------------------
\* Initial states
\* ------------------------------------------------------------------------

InitCall ==
    /\ pc = "idle"
    /\ caller = "none"
    /\ min_confidence = RZero
    /\ max_results = 0
    /\ markets = <<>>
    /\ congress_trades = <<>>
    /\ idx = 0
    /\ signal = <<>>
    /\ signals = <<>>
    /\ sidx = 0
    /\ recommendations = <<>>
    /\ result = <<>>
    /\ run = 1
    /\ first_result = <<>>
    /\ trade_fetches = 0
    /\ analyzed = <<>>
    /\ book_fetches = <<>>

NoKelly ==
    /\ kelly_edge = RZero
    /\ kelly_odds = ROne
    /\ kelly_result = <<>>

\* feeds.py line 453: _feed_manager = None, no DataFeedManager is constructed
NoCall == [op |-> "none", feed_id |-> "none", raised |-> "none", changed |-> {}]

NoFeedManager ==
    /\ feeds = <<>>
    /\ feed_requests = {}
    /\ feed_call = NoCall
    /\ feed_clock = 0

\* the engine over up to MaxMarkets markets of the catalogue
Init ==
    /\ \E n \in 0..MaxMarkets : \E items \in [1..n -> Catalogue] :
          /\ env_markets = [i \in 1..n |-> Market(i, items[i])]
          /\ env_books = [i \in 1..n |-> items[i].book]
    /\ env_trades \in {<<>>, FiveTrades}
    /\ now = 0
    /\ InitCall
    /\ NoKelly
    /\ NoFeedManager

\* the same engine over the markets of EdgeCatalogue
InitEdge ==
    /\ \E n \in 0..MaxMarkets : \E items \in [1..n -> EdgeCatalogue] :
          /\ env_markets = [i \in 1..n |-> Market(i, items[i])]
          /\ env_books = [i \in 1..n |-> items[i].book]
    /\ env_trades \in {<<>>, FiveTrades}
    /\ now = 0
    /\ InitCall
    /\ NoKelly
    /\ NoFeedManager

\* the same engine over the markets of ReorderCatalogue
InitReorder ==
    /\ \E n \in 0..MaxMarkets : \E items \in [1..n -> ReorderCatalogue] :
          /\ env_markets = [i \in 1..n |-> Market(i, items[i])]
          /\ env_books = [i \in 1..n |-> items[i].book]
    /\ env_trades \in {<<>>, FiveTrades}
    /\ now = 0
    /\ InitCall
    /\ NoKelly
    /\ NoFeedManager

\* the detector over one market of the grid
InitScan ==
    /\ \E item \in GridItems :
          /\ env_markets = <<Market(1, item)>>
          /\ env_books = <<item.book>>
    /\ env_trades \in TradeLists
    /\ now = 0
    /\ InitCall
    /\ NoKelly
    /\ NoFeedManager

\* the engine over one market of the threshold slices
InitDetect ==
    /\ \E item \in DetectItems :
          /\ env_markets = <<Market(1, item)>>
          /\ env_books = <<item.book>>
    /\ env_trades \in DetectTradeLists
    /\ now = 0
    /\ InitCall
    /\ NoKelly
    /\ NoFeedManager

InitKelly ==
    /\ env_markets = <<>>
    /\ env_books = <<>>
    /\ env_trades = <<>>
    /\ now = 0
    /\ InitCall
    /\ kelly_edge \in KellyEdges
    /\ kelly_odds \in KellyOdds
    /\ kelly_result = <<>>
    /\ NoFeedManager

\* DataFeedManager() over the feeds of MonitoredFeeds (lines 54-60)
InitFeeds ==
    /\ env_markets = <<>>
    /\ env_books = <<>>
    /\ env_trades = <<>>
    /\ now = 0
    /\ InitCall
    /\ NoKelly
    /\ feeds = [feed_id \in MonitoredFeeds |-> initialize_feeds[feed_id]]
    /\ feed_requests = {}
    /\ feed_call = NoCall
    /\ feed_clock = 0

\* ------------------------------------------------------------------------
\* Steps
\* ------------------------------------------------------------------------

\* RecommendationEngine.get_recommendations(min_confidence, max_results) is called
get_recommendations_call ==
    /\ pc = "idle"
    /\ \E mc \in MinConfidences : \E mr \in 0..MaxResults :
          /\ min_confidence' = mc
          /\ max_results' = mr
    /\ caller' = "recs"
    /\ pc' = "get_markets"
    /\ UNCHANGED <<markets, congress_trades, idx, signal, signals, sidx,
                   recommendations, result, run, first_result>>
    /\ UNCHANGED env_vars
    /\ UNCHANGED kelly_vars
    /\ UNCHANGED feed_vars
    /\ UNCHANGED scan_calls

\* SignalDetector.scan_markets() is called directly
scan_markets_call ==
    /\ pc = "idle"
    /\ caller' = "scan"
    /\ pc' = "get_markets"
    /\ UNCHANGED <<min_confidence, max_results, markets, congress_trades, idx,
                   signal, signals, sidx, recommendations, result, run, first_result>>
    /\ UNCHANGED env_vars
    /\ UNCHANGED kelly_vars
    /\ UNCHANGED feed_vars
    /\ UNCHANGED scan_calls

\* lines 83-84: signals = []; markets = self.poly_client.get_markets(...)
scan_get_markets ==
    /\ pc = "get_markets"
    /\ signals' = <<>>
    /\ markets' = env_markets
    /\ pc' = "get_trades"
    /\ UNCHANGED <<caller, min_confidence, max_results, congress_trades, idx, signal,
                   sidx, recommendations, result, run, first_result>>
    /\ UNCHANGED env_vars
    /\ UNCHANGED kelly_vars
    /\ UNCHANGED feed_vars
    /\ UNCHANGED scan_calls

\* line 87: congress_trades = self.congress_client.get_recent_trades(days=30)
scan_get_recent_trades ==
    /\ pc = "get_trades"
    /\ congress_trades' = env_trades
    /\ trade_fetches' = trade_fetches + 1
    /\ UNCHANGED <<analyzed, book_fetches>>
    /\ idx' = 1
    /\ pc' = "analyze"
    /\ UNCHANGED <<caller, min_confidence, max_results, markets, signal, signals,
                   sidx, recommendations, result, run, first_result>>
    /\ UNCHANGED env_vars
    /\ UNCHANGED kelly_vars
    /\ UNCHANGED feed_vars

\* lines 89-92: one turn of "for market in markets"
keep_signal(sig) ==
    sig # <<>> /\ RGe(sig[1].confidence, CONFIDENCE_THRESHOLD)

scan_analyze_market ==
    /\ pc = "analyze"
    /\ idx <= Len(markets)
    /\ analyzed' = Append(analyzed, [market |-> markets[idx].id,
                                     congress_trades |-> congress_trades])
    /\ book_fetches' = book_fetches \o orderbook_requests(markets[idx])
    /\ UNCHANGED trade_fetches
    /\ IF analyze_market_raises(markets[idx])
       THEN \* the exception leaves scan_markets and get_recommendations
            /\ pc' = "raised"
            /\ UNCHANGED <<signal, signals, idx>>
       ELSE /\ signal' = analyze_market(markets[idx], congress_trades)
            /\ signals' = IF keep_signal(signal') THEN Append(signals, signal'[1])
                          ELSE signals
            /\ idx' = idx + 1
            /\ UNCHANGED pc
    /\ UNCHANGED <<caller, min_confidence, max_results, markets, congress_trades,
                   sidx, recommendations, result, run, first_result>>
    /\ UNCHANGED env_vars
    /\ UNCHANGED kelly_vars
    /\ UNCHANGED feed_vars

\* lines 94-97: the loop is over; sort and return.  Back in get_recommendations
\* (lines 79-83) the loop over the signals starts.
scan_sort_return ==
    /\ pc = "analyze"
    /\ idx > Len(markets)
    /\ signals' = sort_by_confidence(signals)
    /\ IF caller = "recs"
       THEN /\ recommendations' = <<>>
            /\ sidx' = 1
            /\ pc' = IF signals' = <<>> THEN "return" ELSE "assemble"
            /\ UNCHANGED result
       ELSE /\ result' = <<signals'>>
            /\ pc' = "done"
            /\ UNCHANGED <<recommendations, sidx>>
    /\ UNCHANGED <<caller, min_confidence, max_results, markets, congress_trades,
                   idx, signal, run, first_result>>
    /\ UNCHANGED env_vars
    /\ UNCHANGED kelly_vars
    /\ UNCHANGED feed_vars
    /\ UNCHANGED scan_calls

\* skip_signal without the ABSTAIN test of lines 87-88
skip_signal_no_abstain_test(sig, min_conf) ==
    RLt(sig.confidence, min_conf)

\* skip_signal without the confidence test of lines 84-85
skip_signal_no_confidence_test(sig, min_conf) ==
    sig.recommended_position = "ABSTAIN"

\* recommendations.py lines 83-94: one turn of "for signal in signals"
skip_signal(sig, min_conf) ==
    \/ RLt(sig.confidence, min_conf)
    \/ sig.recommended_position = "ABSTAIN"

\* line 93: if len(recommendations) >= max_results: break
loop_break(recs, max_res) == Len(recs) >= max_res

assemble_signal ==
    /\ pc = "assemble"
    /\ sidx <= Len(signals)
    /\ LET sig  == signals[sidx]
           skip == skip_signal(sig, min_confidence)
           recs == IF skip THEN recommendations
                   ELSE Append(recommendations, signal_to_recommendation(sig))
           stop == (~skip /\ loop_break(recs, max_results)) \/ sidx = Len(signals)
       IN  /\ recommendations' = recs
           /\ sidx' = sidx + 1
           /\ pc' = IF stop THEN "return" ELSE "assemble"
    /\ UNCHANGED <<caller, min_confidence, max_results, markets, congress_trades,
                   idx, signal, signals, result, run, first_result>>
    /\ UNCHANGED env_vars
    /\ UNCHANGED kelly_vars
    /\ UNCHANGED feed_vars
    /\ UNCHANGED scan_calls

\* line 96: return recommendations
get_recommendations_return ==
    /\ pc = "return"
    /\ result' = <<recommendations>>
    /\ pc' = "done"
    /\ UNCHANGED <<caller, min_confidence, max_results, markets, congress_trades,
                   idx, signal, signals, sidx, recommendations, run, first_result>>
    /\ UNCHANGED env_vars
    /\ UNCHANGED kelly_vars
    /\ UNCHANGED feed_vars
    /\ UNCHANGED scan_calls

\* the same call is made once more, on the same inputs
call_again ==
    /\ pc = "done"
    /\ caller = "recs"
    /\ run = 1
    /\ first_result' = result
    /\ run' = 2
    /\ result' = <<>>
    /\ markets' = <<>>
    /\ congress_trades' = <<>>
    /\ idx' = 0
    /\ signal' = <<>>
    /\ signals' = <<>>
    /\ sidx' = 0
    /\ recommendations' = <<>>
    /\ trade_fetches' = 0
    /\ analyzed' = <<>>
    /\ book_fetches' = <<>>
    /\ pc' = "get_markets"
    /\ UNCHANGED <<caller, min_confidence, max_results>>
    /\ UNCHANGED env_vars
    /\ UNCHANGED kelly_vars
    /\ UNCHANGED feed_vars

\* the same call is made once more, the markets coming back from get_markets
\* in another order (each market as it was, with its books and the same trades)
call_again_reordered ==
    /\ pc = "done"
    /\ caller = "recs"
    /\ run = 1
    /\ \E perm \in Permutations(DOMAIN env_markets) :
          env_markets' = [k \in DOMAIN env_markets |-> env_markets[perm[k]]]
    /\ first_result' = result
    /\ run' = 2
    /\ result' = <<>>
    /\ markets' = <<>>
    /\ congress_trades' = <<>>
    /\ idx' = 0
    /\ signal' = <<>>
    /\ signals' = <<>>
    /\ sidx' = 0
    /\ recommendations' = <<>>
    /\ trade_fetches' = 0
    /\ analyzed' = <<>>
    /\ book_fetches' = <<>>
    /\ pc' = "get_markets"
    /\ UNCHANGED <<caller, min_confidence, max_results>>
    /\ UNCHANGED <<env_books, env_trades, now>>
    /\ UNCHANGED kelly_vars
    /\ UNCHANGED feed_vars

\* calculate_kelly_fraction(edge, odds) called on its own
kelly_call ==
    /\ kelly_result = <<>>
    /\ kelly_result' = <<calculate_kelly_fraction(kelly_edge, kelly_odds)>>
    /\ UNCHANGED <<kelly_edge, kelly_odds>>
    /\ UNCHANGED call_vars
    /\ UNCHANGED env_vars
    /\ UNCHANGED scan_calls
    /\ UNCHANGED feed_vars

\* no request, no response
NoResponse == Response("none", 0, "none", 0)

ResponsesTo(feed_id) ==
    IF feed_id \in DOMAIN feeds /\ sends_request(feeds[feed_id])
    THEN Responses ELSE {NoResponse}

\* DataFeedManager.check_feed_health(feed_id); `response` is what session.get
\* does if it is called
check_feed_health ==
    /\ feed_clock < MaxChecks
    /\ feed_clock' = feed_clock + 1
    /\ \E feed_id \in FeedIds : \E response \in ResponsesTo(feed_id) :
          IF feed_id \notin DOMAIN feeds
          THEN \* lines 350-351
               /\ UNCHANGED <<feeds, feed_requests>>
               /\ feed_call' = [op |-> "check_feed_health", feed_id |-> feed_id,
                                raised |-> "ValueError", changed |-> {}]
          ELSE /\ feeds' = [feeds EXCEPT
                               ![feed_id] = checked(@, response, feed_clock')]
               /\ feed_requests' = IF sends_request(feeds[feed_id])
                                   THEN feed_requests \cup {feed_id}
                                   ELSE feed_requests
               /\ feed_call' = [op |-> "check_feed_health", feed_id |-> feed_id,
                                raised |-> "none",
                                changed |-> {f \in DOMAIN feeds : feeds'[f] # feeds[f]}]
    /\ UNCHANGED call_vars
    /\ UNCHANGED env_vars
    /\ UNCHANGED kelly_vars
    /\ UNCHANGED scan_calls

\* DataFeedManager.check_all_feeds(): check_feed_health for every feed of the
\* dict; responses[feed_id] is what session.get does for that feed
check_all_feeds ==
    /\ feed_clock < MaxChecks
    /\ feed_clock' = feed_clock + 1
    /\ \E responses \in [{f \in DOMAIN feeds : sends_request(feeds[f])} -> Responses] :
          /\ feeds' = [f \in DOMAIN feeds |->
                          IF sends_request(feeds[f])
                          THEN checked(feeds[f], responses[f], feed_clock')
                          ELSE checked(feeds[f], NoResponse, feed_clock')]
          /\ feed_requests' = feed_requests \cup DOMAIN responses
          /\ feed_call' = [op |-> "check_all_feeds", feed_id |-> "none",
                           raised |-> "none",
                           changed |-> {f \in DOMAIN feeds : feeds'[f] # feeds[f]}]
    /\ UNCHANGED call_vars
    /\ UNCHANGED env_vars
    /\ UNCHANGED kelly_vars
    /\ UNCHANGED scan_calls

ScanSteps ==
    \/ scan_get_markets
    \/ scan_get_recent_trades
    \/ scan_analyze_market
    \/ scan_sort_return

Next ==
    \/ get_recommendations_call
    \/ ScanSteps
    \/ assemble_signal
    \/ get_recommendations_return
    \/ call_again

NextScan ==
    \/ scan_markets_call
    \/ ScanSteps

NextKelly == kelly_call

NextReorder ==
    \/ get_recommendations_call
    \/ ScanSteps
    \/ assemble_signal
    \/ get_recommendations_return
    \/ call_again_reordered

\* scan_markets called directly, or by get_recommendations
NextDetect ==
    \/ scan_markets_call
    \/ get_recommendations_call
    \/ ScanSteps
    \/ assemble_signal
    \/ get_recommendations_return

NextFeeds ==
    \/ check_feed_health
    \/ check_all_feeds

Spec == Init /\ [][Next]_vars
SpecScan == InitScan /\ [][NextScan]_vars
SpecKelly == InitKelly /\ [][NextKelly]_vars
SpecReorder == InitReorder /\ [][NextReorder]_vars
SpecEdge == InitEdge /\ [][Next]_vars
SpecDetect == InitDetect /\ [][NextDetect]_vars
SpecFeeds == InitFeeds /\ [][NextFeeds]_vars

\* ------------------------------------------------------------------------
\* What the claims speak of, taken from the inputs
\* ------------------------------------------------------------------------

\* get_recommendations has returned; Recs is the list it returned
Returned == pc = "done" /\ caller = "recs"
Recs == result[1]

\* market i of the fetch is in the returned list
Reported(i) ==
    \E k \in DOMAIN Recs : Recs[k].trade_url = <<"https://polymarket.com/event/", i>>

\* the position of a recommendation's market in the fetch
MarketOf(rec) == rec.trade_url[2]

\* the "yes" token's book of market i, as fetched: is there one, and its volumes
HasBook(i) ==
    LET tokens == env_markets[i].tokens
        k == FirstYes(tokens, 1)
    IN  /\ k # 0
        /\ tokens[k].token_id # 0
        /\ env_books[tokens[k].token_id].ok
BidVolume(i) == SumSizes(env_books[i].bids)
AskVolume(i) == SumSizes(env_books[i].asks)

\* the signed imbalance where it is above the 0.3 threshold, else 0
DirectionOf(i) ==
    IF ~HasBook(i) \/ BidVolume(i) + AskVolume(i) = 0 THEN RZero
    ELSE LET imbalance == Rat(BidVolume(i) - AskVolume(i), BidVolume(i) + AskVolume(i))
         IN  IF RGt(RAbs(imbalance), Rat(3, 10)) THEN imbalance ELSE RZero

ScoresOf(i) == sub_scores(env_markets[i], env_trades)
ConfidenceOf(i) == combined_confidence(ScoresOf(i))

\* market i qualifies: confidence at least 0.2 and min_confidence, direction not 0
Qualifies(i) ==
    /\ RGe(ConfidenceOf(i), Rat(2, 10))
    /\ RGe(ConfidenceOf(i), min_confidence)
    /\ DirectionOf(i) # RZero

\* the qualifying markets that come before market i by confidence (by the
\* order of the fetch where the confidence is the same)
Ahead(i) ==
    {j \in DOMAIN env_markets :
        /\ Qualifies(j)
        /\ \/ RGt(ConfidenceOf(j), ConfidenceOf(i))
           \/ ConfidenceOf(j) = ConfidenceOf(i) /\ j < i}

\* ------------------------------------------------------------------------
\* C1.  get_recommendations reports every scanned market whose confidence
\* is at least 0.2 and at least min_confidence and whose direction is not
\* 0, as long as fewer than max_results markets of higher confidence
\* qualify: min_confidence is the only confidence filter above the floor.
\* ------------------------------------------------------------------------
C1_EveryQualifyingMarketReported ==
    Returned =>
        \A i \in DOMAIN env_markets :
            (Qualifies(i) /\ Cardinality(Ahead(i)) < max_results) => Reported(i)

\* ------------------------------------------------------------------------
\* C2.  A market whose direction signal is 0 (no "yes" book, a failed
\* fetch, an imbalance not above 0.3) resolves to ABSTAIN and is never in
\* the list of recommendations, whatever its confidence and min_confidence.
\* ------------------------------------------------------------------------
C2_ZeroDirectionNeverRecommended ==
    /\ \A k \in DOMAIN signals :
          DirectionOf(signals[k].market.id) = RZero
              => signals[k].recommended_position = "ABSTAIN"
    /\ \A k \in DOMAIN recommendations :
          DirectionOf(MarketOf(recommendations[k])) # RZero
    /\ Returned => \A i \in DOMAIN env_markets : DirectionOf(i) = RZero => ~Reported(i)

\* a direction-0 market came out of the scan with a confidence of at least
\* min_confidence, room was left in the list, and the list returned lacks it
C2_Witness ==
    /\ Returned
    /\ \E k \in DOMAIN signals :
          /\ DirectionOf(signals[k].market.id) = RZero
          /\ RGe(signals[k].confidence, min_confidence)
          /\ Len(Recs) < max_results
          /\ ~Reported(signals[k].market.id)

\* ------------------------------------------------------------------------
\* C3.  The position and the edge of a signal are a function of the signed
\* imbalance alone: direction > 0 gives YES and min(direction * 0.1, 0.15),
\* direction < 0 gives NO and min(|direction| * 0.1, 0.15), direction = 0
\* gives ABSTAIN and 0, whatever the confidence and the other sub-scores.
\* ------------------------------------------------------------------------
C3_PositionAndEdgeFromDirection ==
    signal # <<>> =>
        LET d == DirectionOf(signal[1].market.id)
            position == signal[1].recommended_position
            edge == signal[1].expected_edge
        IN  /\ RGt(d, RZero) =>
                position = "YES" /\ edge = RMin(RMul(d, Rat(1, 10)), Rat(15, 100))
            /\ RLt(d, RZero) =>
                position = "NO" /\ edge = RMin(RMul(RAbs(d), Rat(1, 10)), Rat(15, 100))
            /\ d = RZero => position = "ABSTAIN" /\ edge = RZero

\* a signal below the 0.5 threshold that still takes the NO side
C3_Witness ==
    /\ signal # <<>>
    /\ RLt(signal[1].confidence, Rat(1, 2))
    /\ signal[1].recommended_position = "NO"
    /\ signal[1].expected_edge = Rat(1, 20)

\* the edge cap of 0.15 is reached (a malformed book gives direction 2)
C3_WitnessCap ==
    /\ signal # <<>>
    /\ signal[1].recommended_position = "YES"
    /\ signal[1].expected_edge = Rat(15, 100)

\* ------------------------------------------------------------------------
\* C4.  calculate_kelly_fraction(edge, odds) is exactly 0 whenever
\* edge <= 0 or odds <= 1, and lies in [0, 0.25] for every other input.
\* ------------------------------------------------------------------------
C4_KellyGuardAndRange ==
    kelly_result # <<>> =>
        IF RLe(kelly_edge, RZero) \/ RLe(kelly_odds, ROne)
        THEN kelly_result[1] = RZero
        ELSE RLe(RZero, kelly_result[1]) /\ RLe(kelly_result[1], Rat(1, 4))

\* a positive edge at odds above 1 sized strictly between 0 and the cap
C4_Witness ==
    /\ kelly_result # <<>>
    /\ RGt(kelly_edge, RZero)
    /\ RGt(kelly_odds, ROne)
    /\ RGt(kelly_result[1], RZero)
    /\ RLt(kelly_result[1], Rat(1, 4))

\* ------------------------------------------------------------------------
\* C5.  The five weights sum to exactly 1, and the confidence of every
\* signal _analyze_market produces lies in [0, 1] (prices in (0,1),
\* volumes not negative).
\* ------------------------------------------------------------------------
C5_WeightsSumToOneConfidenceInUnit ==
    /\ weighted_sum([key \in DOMAIN WEIGHTS |-> ROne], 1) = ROne
    /\ DOMAIN WEIGHTS = {ScoreKeys[k] : k \in DOMAIN ScoreKeys}
    /\ signal # <<>> =>
          /\ RLe(RZero, signal[1].confidence)
          /\ RLe(signal[1].confidence, ROne)

\* the highest confidence of the grid: 0.2 + 0.3 + 0.25 + 0.0675 + 0.07
C5_Witness ==
    /\ signal # <<>>
    /\ signal[1].confidence = Rat(8875, 10000)

\* ------------------------------------------------------------------------
\* C6.  A market whose five sub-scores are all 0 has confidence 0, gets no
\* signal from _analyze_market, and is in the output neither of
\* scan_markets nor of get_recommendations.
\* ------------------------------------------------------------------------
AllZero(i) ==
    LET market == env_markets[i]
    IN  /\ analyze_timing(market).score = RZero
        /\ analyze_volume(market).score = RZero
        /\ analyze_price_momentum(market).score = RZero
        /\ analyze_order_imbalance(market).score = RZero
        /\ analyze_congress_correlation(market, env_trades).score = RZero

C6_AllZeroScoresExcluded ==
    \A i \in DOMAIN env_markets :
        AllZero(i) =>
            /\ ConfidenceOf(i) = RZero
            /\ (pc = "analyze" /\ idx = i + 1) => signal = <<>>
            /\ \A k \in DOMAIN signals : signals[k].market.id # i
            /\ \A k \in DOMAIN recommendations : MarketOf(recommendations[k]) # i
            /\ Returned => ~Reported(i)

\* the call returned a recommendation, and not for the all-zero market it scanned
C6_Witness ==
    /\ Returned
    /\ Recs # <<>>
    /\ \E i \in DOMAIN env_markets : AllZero(i) /\ ~Reported(i)

\* ------------------------------------------------------------------------
\* C7.  The list get_recommendations returns never has more than
\* max_results entries, for every max_results >= 0.
\* ------------------------------------------------------------------------
C7_AtMostMaxResults ==
    Returned => Len(Recs) <= max_results

\* ------------------------------------------------------------------------
\* C8.  The list returned is in non-increasing order of confidence and is
\* exactly the first max_results qualifying signals of the sorted scan, in
\* the scan's order, so that no qualifying market left out has a higher
\* confidence than a reported one.
\* ------------------------------------------------------------------------
IsQualifying(sig) ==
    RGe(sig.confidence, min_confidence) /\ sig.recommended_position # "ABSTAIN"

QualifyingSignals == SelectSeq(signals, IsQualifying)

FirstQualifying(n) ==
    [k \in 1..(IF n < Len(QualifyingSignals) THEN n ELSE Len(QualifyingSignals))
        |-> signal_to_recommendation(QualifyingSignals[k])]

NonIncreasing(recs) ==
    \A k \in 1..(Len(recs) - 1) : RGe(recs[k].confidence, recs[k + 1].confidence)

C8_FirstMaxResultsOfSortedScan ==
    Returned =>
        /\ NonIncreasing(Recs)
        /\ Recs = FirstQualifying(max_results)
        /\ \A i \in DOMAIN env_markets :
              (Qualifies(i) /\ ~Reported(i)) =>
                  \A k \in DOMAIN Recs : RLe(ConfidenceOf(i), Recs[k].confidence)

\* ------------------------------------------------------------------------
\* C9.  Every recommendation returned has confidence >= min_confidence,
\* and when no scanned market reaches min_confidence the call returns the
\* empty list (it returns; no step of it fails).
\* ------------------------------------------------------------------------
C9_MinConfidenceRespected ==
    /\ \A k \in DOMAIN recommendations :
          RGe(recommendations[k].confidence, min_confidence)
    /\ Returned =>
          /\ \A k \in DOMAIN Recs : RGe(Recs[k].confidence, min_confidence)
          /\ (\A i \in DOMAIN env_markets : RLt(ConfidenceOf(i), min_confidence))
                => Recs = <<>>

\* min_confidence is 0.9, the scan found a market with a side to take, all
\* markets are below 0.9, and the call returned the empty list
C9_Witness ==
    /\ Returned
    /\ min_confidence = Rat(9, 10)
    /\ max_results > 0
    /\ \E k \in DOMAIN signals : signals[k].recommended_position # "ABSTAIN"
    /\ \A i \in DOMAIN env_markets : RLt(ConfidenceOf(i), min_confidence)
    /\ Recs = <<>>

\* ------------------------------------------------------------------------
\* C10.  Two runs of get_recommendations on identical inputs return the
\* same list in the same order, by descending confidence.
\*
\* As the claim states it, entries of equal confidence come in the
\* declaration order of their dominant signal (the order of WEIGHTS):
\* ------------------------------------------------------------------------
WEIGHTS_ORDER == <<"order_imbalance", "volume_spike", "congress_correlation",
                   "price_momentum", "timing_pattern">>

DeclarationRank(signal_type) ==
    CHOOSE k \in DOMAIN WEIGHTS_ORDER : WEIGHTS_ORDER[k] = signal_type

SecondRunReturned == Returned /\ run = 2

C10_TiesByDominantSignalDeclaration ==
    SecondRunReturned =>
        /\ result = first_result
        /\ NonIncreasing(Recs)
        /\ \A k \in 1..(Len(Recs) - 1) :
              Recs[k].confidence = Recs[k + 1].confidence =>
                  DeclarationRank(Recs[k].signal_type)
                      <= DeclarationRank(Recs[k + 1].signal_type)

\* C10, as the code has it: entries of equal confidence keep the order in
\* which their markets were fetched (the sort of scan_markets is stable and
\* the assembler keeps the scan's order).
C10_IdempotentTiesInFetchOrder ==
    SecondRunReturned =>
        /\ result = first_result
        /\ NonIncreasing(Recs)
        /\ \A k \in 1..(Len(Recs) - 1) :
              Recs[k].confidence = Recs[k + 1].confidence =>
                  MarketOf(Recs[k]) < MarketOf(Recs[k + 1])

\* the second run returned two recommendations of equal confidence whose
\* dominant signals differ
C10_Witness ==
    /\ SecondRunReturned
    /\ Len(Recs) = 2
    /\ Recs[1].confidence = Recs[2].confidence
    /\ Recs[1].signal_type # Recs[2].signal_type

\* ------------------------------------------------------------------------
\* C11.  The signal_type of a signal is the sub-detector with the highest
\* raw score; among several with the highest score the first one wins.
\*
\* As the claim states it, "first" is by the order of the WEIGHTS table:
\* ------------------------------------------------------------------------
HighestScore(scores, key) ==
    \A other \in DOMAIN scores : RLe(scores[other], scores[key])

FirstHighest(order, scores) ==
    order[CHOOSE k \in DOMAIN order :
            /\ HighestScore(scores, order[k])
            /\ \A j \in 1..(k - 1) : ~HighestScore(scores, order[j])]

SignalScores == ScoresOf(signal[1].market.id)

C11_DominantFirstInWeightTable ==
    signal # <<>> =>
        /\ HighestScore(SignalScores, signal[1].signal_type)
        /\ signal[1].signal_type = FirstHighest(WEIGHTS_ORDER, SignalScores)

\* C11, as the code has it: "first" is by the order in which _analyze_market
\* fills the scores dict (volume_spike before order_imbalance).
C11_DominantFirstInScoresOrder ==
    signal # <<>> =>
        /\ HighestScore(SignalScores, signal[1].signal_type)
        /\ signal[1].signal_type =
              FirstHighest(<<"volume_spike", "order_imbalance", "congress_correlation",
                             "price_momentum", "timing_pattern">>, SignalScores)

\* the volume score and the imbalance score tie at the top, both 1
C11_Witness ==
    /\ signal # <<>>
    /\ SignalScores["volume_spike"] = ROne
    /\ SignalScores["order_imbalance"] = ROne
    /\ signal[1].signal_type = "volume_spike"

\* ------------------------------------------------------------------------
\* C12.  For a chosen-side price of 0.72 and an expected_edge of 0.10 the
\* stake is calculate_kelly_fraction(0.10, 1/0.72) and suggested_size_pct
\* is the stake times 100.
\*
\* As the claim states it, the stake is 0.183 and the percentage 18.3 (to
\* the three digits given):
\* ------------------------------------------------------------------------
Near(x, target, tolerance) == RLt(RAbs(RSub(x, target)), tolerance)

AtPrice72Edge10(rec) ==
    rec.current_price = Rat(72, 100) /\ rec.expected_edge = Rat(10, 100)

StakeAt72Edge10 == calculate_kelly_fraction(Rat(10, 100), RDiv(ROne, Rat(72, 100)))

C12_StakeAbout183 ==
    Returned =>
        \A k \in DOMAIN Recs :
            AtPrice72Edge10(Recs[k]) =>
                /\ Near(StakeAt72Edge10, Rat(183, 1000), Rat(5, 10000))
                /\ Near(Recs[k].suggested_size_pct, Rat(183, 10), Rat(5, 100))

\* C12, as the code has it: the stake is 5/28, about 0.179, and the
\* percentage 125/7, about 17.9.
C12_StakeAbout179 ==
    Returned =>
        \A k \in DOMAIN Recs :
            AtPrice72Edge10(Recs[k]) =>
                /\ StakeAt72Edge10 = Rat(5, 28)
                /\ Near(StakeAt72Edge10, Rat(179, 1000), Rat(5, 10000))
                /\ Recs[k].suggested_size_pct = Rat(125, 7)
                /\ Near(Recs[k].suggested_size_pct, Rat(179, 10), Rat(5, 100))

\* a recommendation to buy YES at 0.72 with an edge of 0.10 was returned
C12_Witness ==
    /\ Returned
    /\ \E k \in DOMAIN Recs : AtPrice72Edge10(Recs[k]) /\ Recs[k].position = "BUY YES"

\* ------------------------------------------------------------------------
\* C13.  For a market with volume_24h = 847000 and total_volume = 12500000
\* (ratio 2.0328) the evidence of the volume sub-detector has the
\* high-absolute-volume entry.
\*
\* As the claim states it, the score is min((ratio - 1)/5, 1), about 0.206:
\* ------------------------------------------------------------------------
Scenario13(market) ==
    market.volume_24h = 847000 /\ market.total_volume = 12500000

Has(evidence, entry) == \E k \in DOMAIN evidence : evidence[k] = entry

C13_VolumeScoreAbout0206 ==
    (signal # <<>> /\ Scenario13(signal[1].market)) =>
        /\ Near(analyze_volume(signal[1].market).score, Rat(206, 1000), Rat(1, 1000))
        /\ Has(signal[1].evidence, <<"High absolute volume">>)

\* C13, as the code has it: the ratio term, 1291/6250 (about 0.206), is
\* raised to the 0.3 that a 24h volume above 100000 guarantees; the score
\* is 0.3 and the evidence has the spike entry and the absolute one.
C13_VolumeScoreRaisedToFloor ==
    (signal # <<>> /\ Scenario13(signal[1].market)) =>
        /\ analyze_volume(signal[1].market).score = Rat(3, 10)
        /\ ScoresOf(signal[1].market.id)["volume_spike"] = Rat(3, 10)
        /\ Has(signal[1].evidence, <<"Volume spike">>)
        /\ Has(signal[1].evidence, <<"High absolute volume">>)

\* a signal for a market with these volumes, carrying the spike evidence
C13_Witness ==
    /\ signal # <<>>
    /\ Scenario13(signal[1].market)
    /\ Has(signal[1].evidence, <<"Volume spike">>)
    /\ signal[1].recommended_position = "YES"

\* ------------------------------------------------------------------------
\* C15.  No input is fatal to a scan: a market, token, book level or trade
\* with missing or malformed fields is skipped, the other markets are
\* still analysed, and get_recommendations returns a list; it never raises.
\* ------------------------------------------------------------------------
Raised == pc = "raised"

C15_NoInputIsFatal ==
    /\ ~Raised
    /\ (pc \in {"assemble", "return", "done"}) => idx = Len(env_markets) + 1

\* ------------------------------------------------------------------------
\* C14.  Every recommendation has suggested_size_pct in [0, 25] and
\* expected_edge in [0, 0.15], and each of the five sub-scores behind it is
\* in [0, 1], for markets with prices in (0,1), volumes and book sizes >= 0.
\* ------------------------------------------------------------------------
InUnit(x) == RLe(RZero, x) /\ RLe(x, ROne)

NonNegativeSizes(levels) ==
    \A k \in DOMAIN levels : float_of(levels[k].size) >= 0

WellFormed(i) ==
    LET market == env_markets[i]
    IN  /\ RLt(RZero, market.yes_price) /\ RLt(market.yes_price, ROne)
        /\ RLt(RZero, market.no_price) /\ RLt(market.no_price, ROne)
        /\ market.volume_24h >= 0 /\ market.total_volume >= 0
        /\ NonNegativeSizes(env_books[i].bids)
        /\ NonNegativeSizes(env_books[i].asks)

C14_SizeEdgeAndScoresInRange ==
    \A k \in DOMAIN recommendations :
        LET rec == recommendations[k]
        IN  WellFormed(MarketOf(rec)) =>
                /\ RLe(RZero, rec.suggested_size_pct)
                /\ RLe(rec.suggested_size_pct, RInt(25))
                /\ RLe(RZero, rec.expected_edge)
                /\ RLe(rec.expected_edge, Rat(15, 100))
                /\ InUnit(rec.confidence)
                /\ \A key \in DOMAIN ScoresOf(MarketOf(rec)) :
                      InUnit(ScoresOf(MarketOf(rec))[key])

\* a returned recommendation sized at the cap of 25, with a sub-score of 1
C14_Witness ==
    /\ Returned
    /\ \E k \in DOMAIN Recs :
          /\ WellFormed(MarketOf(Recs[k]))
          /\ Recs[k].suggested_size_pct = RInt(25)
          /\ \E key \in DOMAIN ScoresOf(MarketOf(Recs[k])) :
                ScoresOf(MarketOf(Recs[k]))[key] = ROne

\* ------------------------------------------------------------------------
\* C16.  When the book request of a market fails or answers an empty book,
\* the imbalance sub-detector gives score 0, direction 0 and no evidence;
\* the request is made once, not again; the other four sub-detectors run
\* and make up the market's confidence.
\* ------------------------------------------------------------------------
LastAnalyzed == analyzed[Len(analyzed)].market

\* the "yes" book of market i was asked for and came back failed or empty
FailedOrEmptyBook(i) ==
    /\ orderbook_requests(env_markets[i]) # <<>>
    /\ \/ ~env_books[i].ok
       \/ Len(env_books[i].bids) = 0 /\ Len(env_books[i].asks) = 0

Requests(token_id) == Cardinality({k \in DOMAIN book_fetches : book_fetches[k] = token_id})

OtherFour(i) ==
    LET market == env_markets[i]
    IN  RAdd(RAdd(RMul(analyze_volume(market).score, Rat(20, 100)),
                  RMul(analyze_congress_correlation(market, env_trades).score,
                       Rat(25, 100))),
             RAdd(RMul(analyze_price_momentum(market).score, Rat(15, 100)),
                  RMul(analyze_timing(market).score, Rat(10, 100))))

C16_FailedBookIsNeutral ==
    (analyzed # <<>> /\ FailedOrEmptyBook(LastAnalyzed)) =>
        /\ Requests(orderbook_requests(env_markets[LastAnalyzed])[1]) = 1
        /\ pc # "raised"
        /\ IF RLt(OtherFour(LastAnalyzed), Rat(2, 10)) THEN signal = <<>>
           ELSE /\ signal # <<>>
                /\ signal[1].market.id = LastAnalyzed
                /\ signal[1].confidence = OtherFour(LastAnalyzed)
                /\ signal[1].recommended_position = "ABSTAIN"
                /\ signal[1].expected_edge = RZero
                /\ ~Has(signal[1].evidence, <<"Strong buy pressure">>)
                /\ ~Has(signal[1].evidence, <<"Strong sell pressure">>)
                /\ signal[1].signal_type # "order_imbalance"

\* the book request failed and the market still got a signal above 0.5
C16_Witness ==
    /\ analyzed # <<>>
    /\ ~env_books[LastAnalyzed].ok
    /\ orderbook_requests(env_markets[LastAnalyzed]) # <<>>
    /\ signal # <<>>
    /\ RGt(signal[1].confidence, Rat(1, 2))
    /\ Len(signal[1].evidence) >= 4

\* the same with a book that came back without a level
C16_WitnessEmptyBook ==
    /\ analyzed # <<>>
    /\ env_books[LastAnalyzed].ok
    /\ FailedOrEmptyBook(LastAnalyzed)
    /\ signal # <<>>

\* ------------------------------------------------------------------------
\* C17.  The list of recommendations does not depend on the order in which
\* the markets are processed: the same markets analysed in another order
\* and sorted by confidence give the same list.
\*
\* As the claim states it, for every set of markets:
\* ------------------------------------------------------------------------
C17_SameListInAnyOrder ==
    SecondRunReturned => result = first_result

\* C17, as the code has it: the confidences of the list are the same in any
\* order, and the list is the same when no two qualifying signals have the
\* same confidence (signals of equal confidence stay in the order processed).
Confidences(recs) == [k \in DOMAIN recs |-> recs[k].confidence]

DistinctConfidences(sigs) ==
    \A j, k \in DOMAIN sigs : j # k => sigs[j].confidence # sigs[k].confidence

C17_SameListUnlessTied ==
    SecondRunReturned =>
        /\ Confidences(Recs) = Confidences(first_result[1])
        /\ DistinctConfidences(QualifyingSignals) => result = first_result

\* two markets of different confidence were processed in the other order,
\* and the second run returned both, as the first one had
C17_Witness ==
    /\ SecondRunReturned
    /\ Len(env_markets) = 2
    /\ env_markets[1].id = 2
    /\ Len(Recs) = 2
    /\ Recs[1].confidence # Recs[2].confidence
    /\ result = first_result

\* ------------------------------------------------------------------------
\* C18.  Within one scan the trade list is fetched exactly once, before any
\* market is analysed, and that list is passed to every analysis; every
\* fetched market passes through _analyze_market exactly once (in the order
\* fetched), with at most one book request per market.
\* ------------------------------------------------------------------------
ScanOver == pc \in {"assemble", "return", "done"}

TokenIds(i) == {markets[i].tokens[k].token_id : k \in DOMAIN markets[i].tokens}

BookFetchesFor(i) ==
    Cardinality({k \in DOMAIN book_fetches : book_fetches[k] \in TokenIds(i)})

C18_OneFetchOneAnalysisPerMarket ==
    /\ trade_fetches <= 1
    /\ analyzed # <<>> => trade_fetches = 1
    /\ Len(analyzed) <= Len(markets)
    /\ \A k \in DOMAIN analyzed :
          /\ analyzed[k].market = markets[k].id
          /\ analyzed[k].congress_trades = env_trades
          /\ \A j \in DOMAIN analyzed : analyzed[j].market = analyzed[k].market => j = k
    /\ \A i \in DOMAIN markets : BookFetchesFor(i) <= 1
    /\ Len(book_fetches) <= Len(analyzed)
    /\ ScanOver =>
          /\ trade_fetches = 1
          /\ markets = env_markets
          /\ Len(analyzed) = Len(markets)

\* a scan of two markets is over: one fetch of a list of seven trades, two
\* analyses, two book requests
C18_Witness ==
    /\ Returned
    /\ trade_fetches = 1
    /\ Len(env_trades) = 7
    /\ Len(analyzed) = 2
    /\ Len(book_fetches) = 2

\* ------------------------------------------------------------------------
\* C19.  A recommendation for a YES signal has position "BUY YES" and the
\* market's yes_price as current_price, one for a NO signal "BUY NO" and
\* the market's no_price (the NO token's own price, not 1 - yes_price);
\* the stake is sized from that price and suggested_size_pct is stake * 100.
\* ------------------------------------------------------------------------
StakeAt(price, edge) ==
    IF RGt(price, RZero) /\ RLt(price, ROne)
    THEN calculate_kelly_fraction(edge, RDiv(ROne, price))
    ELSE RZero

C19_ChosenSidePriceAndSize ==
    \A k \in DOMAIN recommendations :
        LET rec == recommendations[k]
            market == env_markets[MarketOf(rec)]
            direction == DirectionOf(MarketOf(rec))
        IN  /\ RGt(direction, RZero) =>
                rec.position = "BUY YES" /\ rec.current_price = market.yes_price
            /\ RLt(direction, RZero) =>
                rec.position = "BUY NO" /\ rec.current_price = market.no_price
            /\ rec.suggested_size_pct =
                  RMul(StakeAt(rec.current_price, rec.expected_edge), RInt(100))

\* a NO recommendation was returned whose no_price is not 1 - yes_price
C19_Witness ==
    /\ Returned
    /\ \E k \in DOMAIN Recs :
          /\ Recs[k].position = "BUY NO"
          /\ Recs[k].current_price = env_markets[MarketOf(Recs[k])].no_price
          /\ Recs[k].current_price # RSub(ROne, env_markets[MarketOf(Recs[k])].yes_price)
          /\ RGt(Recs[k].suggested_size_pct, RZero)

\* ------------------------------------------------------------------------
\* C20.  Degenerate arithmetic does not raise and gives a neutral value:
\* total_volume = 0 gives volume score 0 and no volume evidence; a book
\* whose bid and ask volumes are both 0 gives imbalance 0; a chosen-side
\* price <= 0 or >= 1 gives a stake of 0.
\* ------------------------------------------------------------------------
\* every size of the book of market i is a number
BookParses(i) == ~calculate_order_imbalance_raises(env_books[i])

ZeroVolumeBook(i) ==
    /\ orderbook_requests(env_markets[i]) # <<>>
    /\ env_books[i].ok
    /\ BookParses(i)
    /\ BidVolume(i) = 0
    /\ AskVolume(i) = 0

WithoutVolume(i) ==
    LET market == env_markets[i]
    IN  RAdd(RAdd(RMul(analyze_order_imbalance(market).score, Rat(30, 100)),
                  RMul(analyze_congress_correlation(market, env_trades).score,
                       Rat(25, 100))),
             RAdd(RMul(analyze_price_momentum(market).score, Rat(15, 100)),
                  RMul(analyze_timing(market).score, Rat(10, 100))))

Degenerate(i) ==
    \/ env_markets[i].total_volume = 0
    \/ ZeroVolumeBook(i)
    \/ RLe(env_markets[i].yes_price, RZero) \/ RGe(env_markets[i].yes_price, ROne)
    \/ RLe(env_markets[i].no_price, RZero) \/ RGe(env_markets[i].no_price, ROne)

C20_DegenerateArithmeticIsNeutral ==
    /\ (analyzed # <<>> /\ Degenerate(LastAnalyzed) /\ BookParses(LastAnalyzed))
          => (~Raised /\ idx = LastAnalyzed + 1)
    /\ \A k \in DOMAIN signals :
          LET sig == signals[k]
              i == sig.market.id
          IN  /\ env_markets[i].total_volume = 0 =>
                    /\ analyze_volume(env_markets[i]) = [score |-> RZero, evidence |-> <<>>]
                    /\ sig.confidence = WithoutVolume(i)
                    /\ ~Has(sig.evidence, <<"Volume spike">>)
                    /\ ~Has(sig.evidence, <<"High absolute volume">>)
              /\ ZeroVolumeBook(i) =>
                    /\ calculate_order_imbalance(get_orderbook(i)) = RZero
                    /\ sig.confidence = OtherFour(i)
                    /\ sig.recommended_position = "ABSTAIN"
                    /\ sig.expected_edge = RZero
    /\ \A k \in DOMAIN recommendations :
          LET rec == recommendations[k]
          IN  (RLe(rec.current_price, RZero) \/ RGe(rec.current_price, ROne))
                  => rec.suggested_size_pct = RZero

\* returned: a recommendation to buy YES at a price of 1 with a stake of 0,
\* for a market without volume baseline but 24h volume above 100000; the
\* same scan had a market whose book levels all have size 0
C20_Witness ==
    /\ Returned
    /\ \E k \in DOMAIN Recs :
          /\ Recs[k].current_price = ROne
          /\ Recs[k].suggested_size_pct = RZero
          /\ RGt(Recs[k].expected_edge, RZero)
          /\ env_markets[MarketOf(Recs[k])].total_volume = 0
          /\ env_markets[MarketOf(Recs[k])].volume_24h > 100000
    /\ \E k \in DOMAIN signals :
          /\ ZeroVolumeBook(signals[k].market.id)
          /\ Len(env_books[signals[k].market.id].bids) > 0

\* ------------------------------------------------------------------------
\* C21.  A market whose volume_24h is above 100000 gets a volume score of
\* at least 0.3, whatever the ratio of volume_24h to total_volume / 30.
\*
\* As the claim states it, for every value of total_volume:
\* ------------------------------------------------------------------------
AnalyzedMarket == env_markets[LastAnalyzed]

C21_FloorForEveryTotalVolume ==
    (analyzed # <<>> /\ AnalyzedMarket.volume_24h > 100000) =>
        RGe(analyze_volume(AnalyzedMarket).score, Rat(3, 10))

\* C21, as the code has it: for every total_volume other than 0.  With
\* total_volume = 0 the sub-detector returns before it looks at volume_24h:
\* the score is 0 and there is no evidence.
C21_FloorUnlessNoTotalVolume ==
    analyzed # <<>> =>
        LET volume == analyze_volume(AnalyzedMarket)
        IN  /\ (AnalyzedMarket.volume_24h > 100000 /\ AnalyzedMarket.total_volume # 0) =>
                /\ RGe(volume.score, Rat(3, 10))
                /\ Has(volume.evidence, <<"High absolute volume">>)
                /\ signal # <<>> =>
                      RGe(signal[1].confidence,
                          RAdd(Rat(6, 100), WithoutVolume(LastAnalyzed)))
            /\ AnalyzedMarket.total_volume = 0 =>
                /\ volume = [score |-> RZero, evidence |-> <<>>]
                /\ signal # <<>> => signal[1].confidence = WithoutVolume(LastAnalyzed)

\* a 24h volume just above 100000 that is no spike (ratio about 0.24) scored 0.3
C21_Witness ==
    /\ analyzed # <<>>
    /\ signal # <<>>
    /\ AnalyzedMarket.volume_24h = 100100
    /\ AnalyzedMarket.total_volume = 12500000
    /\ analyze_volume(AnalyzedMarket).score = Rat(3, 10)
    /\ ~Has(signal[1].evidence, <<"Volume spike">>)
    /\ Has(signal[1].evidence, <<"High absolute volume">>)

\* ------------------------------------------------------------------------
\* C22.  The imbalance is (bid_volume - ask_volume) / (bid_volume +
\* ask_volume) over all levels of the first "yes" token's book.  Only when
\* |imbalance| is strictly above 0.3 is the score min(|imbalance| / 0.5, 1)
\* and the direction the imbalance; otherwise both are 0.  Bids of 600
\* against asks of 200 give imbalance 0.5, score 1, direction +0.5, YES and
\* an edge of 0.05.
\* ------------------------------------------------------------------------
RawImbalance(i) ==
    IF BidVolume(i) + AskVolume(i) = 0 THEN RZero
    ELSE Rat(BidVolume(i) - AskVolume(i), BidVolume(i) + AskVolume(i))

C22_ImbalanceScoreAndDirection ==
    (analyzed # <<>> /\ BookParses(LastAnalyzed)) =>
        LET i == LastAnalyzed
            imbalance == RawImbalance(i)
            found == analyze_order_imbalance(AnalyzedMarket)
        IN  /\ IF HasBook(i) /\ RGt(RAbs(imbalance), Rat(3, 10))
               THEN /\ found.score = RMin(RDiv(RAbs(imbalance), Rat(1, 2)), ROne)
                    /\ found.direction = imbalance
                    /\ signal # <<>> =>
                          signal[1].recommended_position
                              = (IF RGt(imbalance, RZero) THEN "YES" ELSE "NO")
               ELSE /\ found.score = RZero
                    /\ found.direction = RZero
                    /\ signal # <<>> =>
                          /\ signal[1].recommended_position = "ABSTAIN"
                          /\ signal[1].expected_edge = RZero
            /\ (HasBook(i) /\ BidVolume(i) = 600 /\ AskVolume(i) = 200) =>
                  /\ imbalance = Rat(1, 2)
                  /\ found.score = ROne
                  /\ found.direction = Rat(1, 2)
                  /\ signal # <<>> =>
                        /\ signal[1].recommended_position = "YES"
                        /\ signal[1].expected_edge = Rat(5, 100)

\* bids of 400 and 200 against asks of 200, the "yes" token listed second:
\* the signal is YES with an edge of 0.05
C22_Witness ==
    /\ analyzed # <<>>
    /\ signal # <<>>
    /\ HasBook(LastAnalyzed)
    /\ AnalyzedMarket.tokens[1].outcome = "No"
    /\ Len(env_books[LastAnalyzed].bids) = 2
    /\ BidVolume(LastAnalyzed) = 600
    /\ AskVolume(LastAnalyzed) = 200
    /\ signal[1].recommended_position = "YES"
    /\ signal[1].expected_edge = Rat(5, 100)

\* an imbalance of exactly 0.3 (650 against 350) left score and direction at 0
C22_WitnessAtThreshold ==
    /\ analyzed # <<>>
    /\ signal # <<>>
    /\ HasBook(LastAnalyzed)
    /\ RawImbalance(LastAnalyzed) = Rat(3, 10)
    /\ analyze_order_imbalance(AnalyzedMarket).score = RZero
    /\ signal[1].recommended_position = "ABSTAIN"

\* ------------------------------------------------------------------------
\* C23.  When is a trade topically relevant to a market?
\*
\* As the claim states it, when the question contains the keyword of a
\* topic of the table ("fed", "sec", ...) and the trade's company contains
\* one of the keywords that topic maps to:
\* ------------------------------------------------------------------------
TopicNamedInQuestion(market, trade) ==
    \E topic \in DOMAIN political_keywords :
        /\ topic \in market.question
        /\ political_keywords[topic] \cap trade.company # {}

C23_TopicNameSelectsMapping ==
    analyzed # <<>> =>
        \A k \in DOMAIN env_trades :
            trade_relevant(AnalyzedMarket, env_trades[k])
                <=> TopicNamedInQuestion(AnalyzedMarket, env_trades[k])

\* C23, as the code has it: the name of a topic is never looked for.  A
\* trade is relevant when, for some topic, one of the keywords the topic
\* maps to occurs in the question and one of them (the same or another)
\* occurs in the company.
SharedTopic(market, trade) ==
    \E topic \in DOMAIN political_keywords :
        /\ political_keywords[topic] \cap market.question # {}
        /\ political_keywords[topic] \cap trade.company # {}

LargeSharedTopic(market, trades) ==
    {k \in DOMAIN trades : SharedTopic(market, trades[k]) /\ trades[k].amount_high >= 50000}

C23_MappedKeywordInQuestionAndCompany ==
    analyzed # <<>> =>
        LET found == analyze_congress_correlation(AnalyzedMarket, env_trades)
            count == Cardinality(LargeSharedTopic(AnalyzedMarket, env_trades))
        IN  /\ \A k \in DOMAIN env_trades :
                  trade_relevant(AnalyzedMarket, env_trades[k])
                      <=> SharedTopic(AnalyzedMarket, env_trades[k])
            /\ found.score = RMin(Rat(2 * count, 10), ROne)
            /\ (AnalyzedMarket.question \subseteq DOMAIN political_keywords) =>
                  /\ found.score = RZero
                  /\ signal # <<>> =>
                        \A e \in DOMAIN signal[1].evidence :
                            signal[1].evidence[e][1] # "Congressional trade"

\* the question has "regulation", a keyword of the topics sec and tech, and
\* names no topic: the crypto trade and the privacy trade count, the import
\* trade does not
C23_Witness ==
    /\ analyzed # <<>>
    /\ signal # <<>>
    /\ AnalyzedMarket.question = {"regulation"}
    /\ env_trades = SectorTrades
    /\ analyze_congress_correlation(AnalyzedMarket, env_trades).score = Rat(4, 10)
    /\ Has(signal[1].evidence, <<"Congressional trade", "P9">>)
    /\ Has(signal[1].evidence, <<"Congressional trade", "P10">>)
    /\ ~Has(signal[1].evidence, <<"Congressional trade", "P11">>)

\* the question names the topic "fed" and has none of its keywords: the six
\* large rate trades of the list do not count
C23_WitnessTopicNameOnly ==
    /\ analyzed # <<>>
    /\ signal # <<>>
    /\ AnalyzedMarket.question = {"fed"}
    /\ env_trades = ManyTrades
    /\ analyze_congress_correlation(AnalyzedMarket, env_trades).score = RZero

\* ------------------------------------------------------------------------
\* C24.  The legislative-correlation score is min(count * 0.2, 1), count
\* being the number of trades of the shared list that are relevant and have
\* amount_high >= 50000 (a trade below 50000 never counts); the evidence
\* names at most three of the counted trades; count 0 gives score 0 and no
\* evidence.
\* ------------------------------------------------------------------------
Counted(market, trades) ==
    {k \in DOMAIN trades : trade_relevant(market, trades[k]) /\ trades[k].amount_high >= 50000}

CongressEvidence(evidence) ==
    {e \in DOMAIN evidence : evidence[e][1] = "Congressional trade"}

C24_ScoreFromCountOfLargeTrades ==
    analyzed # <<>> =>
        LET found == analyze_congress_correlation(AnalyzedMarket, env_trades)
            counted == Counted(AnalyzedMarket, env_trades)
            count == Cardinality(counted)
        IN  /\ found.score = RMin(RMul(RInt(count), Rat(2, 10)), ROne)
            /\ Len(found.evidence) = (IF count < 3 THEN count ELSE 3)
            /\ \A e \in DOMAIN found.evidence :
                  \E k \in counted :
                      found.evidence[e] = <<"Congressional trade", env_trades[k].politician>>
            /\ count = 0 => found = [score |-> RZero, evidence |-> <<>>]
            /\ signal # <<>> =>
                  /\ Cardinality(CongressEvidence(signal[1].evidence)) = Len(found.evidence)
                  /\ \A k \in DOMAIN env_trades :
                        env_trades[k].amount_high < 50000 =>
                            ~Has(signal[1].evidence,
                                 <<"Congressional trade", env_trades[k].politician>>)

\* six of the eight trades count (one is below 50000, one is unrelated): the
\* score is capped at 1 and the evidence names the first three
C24_Witness ==
    /\ analyzed # <<>>
    /\ signal # <<>>
    /\ env_trades = ManyTrades
    /\ Cardinality(Counted(AnalyzedMarket, env_trades)) = 6
    /\ analyze_congress_correlation(AnalyzedMarket, env_trades).score = ROne
    /\ Cardinality(CongressEvidence(signal[1].evidence)) = 3
    /\ Has(signal[1].evidence, <<"Congressional trade", "P3">>)

\* two trades count, one of them of exactly 50000: the score is 0.4
C24_WitnessAtThreshold ==
    /\ analyzed # <<>>
    /\ signal # <<>>
    /\ env_trades = TwoTrades
    /\ analyze_congress_correlation(AnalyzedMarket, env_trades).score = Rat(4, 10)
    /\ Has(signal[1].evidence, <<"Congressional trade", "P2">>)

\* ------------------------------------------------------------------------
\* C25.  The price-momentum score is |yes_price - 0.5| * 2 * 0.5 when
\* yes_price is outside [0.15, 0.85] and volume_24h > 10000; it is raised to
\* at least 0.3 when yes_price is in [0.45, 0.55] and volume_24h > 50000;
\* the higher of the two applies; otherwise it is 0.
\* ------------------------------------------------------------------------
ConvictionTerm(market) ==
    IF /\ \/ RLt(market.yes_price, Rat(15, 100))
          \/ RGt(market.yes_price, Rat(85, 100))
       /\ market.volume_24h > 10000
    THEN RMul(RMul(RAbs(RSub(market.yes_price, Rat(1, 2))), RInt(2)), Rat(1, 2))
    ELSE RZero

DiscoveryTerm(market) ==
    IF /\ RGe(market.yes_price, Rat(45, 100))
       /\ RLe(market.yes_price, Rat(55, 100))
       /\ market.volume_24h > 50000
    THEN Rat(3, 10)
    ELSE RZero

C25_MomentumIsHigherOfTwoTerms ==
    analyzed # <<>> =>
        LET found == analyze_price_momentum(AnalyzedMarket)
        IN  /\ found.score = RMax(ConvictionTerm(AnalyzedMarket), DiscoveryTerm(AnalyzedMarket))
            /\ signal # <<>> =>
                  /\ Has(signal[1].evidence, <<"High conviction">>)
                        <=> ConvictionTerm(AnalyzedMarket) # RZero
                  /\ Has(signal[1].evidence, <<"Active price discovery">>)
                        <=> DiscoveryTerm(AnalyzedMarket) # RZero

\* a price of 0.86 with a 24h volume just above 10000: the score is 0.36
C25_Witness ==
    /\ analyzed # <<>>
    /\ signal # <<>>
    /\ AnalyzedMarket.yes_price = Rat(86, 100)
    /\ AnalyzedMarket.volume_24h = 10100
    /\ analyze_price_momentum(AnalyzedMarket).score = Rat(36, 100)
    /\ Has(signal[1].evidence, <<"High conviction">>)

\* a price of 0.55 with a 24h volume just above 50000: the score is 0.3
C25_WitnessDiscovery ==
    /\ analyzed # <<>>
    /\ signal # <<>>
    /\ AnalyzedMarket.yes_price = Rat(55, 100)
    /\ AnalyzedMarket.volume_24h = 50100
    /\ analyze_price_momentum(AnalyzedMarket).score = Rat(3, 10)
    /\ Has(signal[1].evidence, <<"Active price discovery">>)

\* a price of exactly 0.85, volume 847000: inside [0.15, 0.85], the score is 0
C25_WitnessAtBound ==
    /\ analyzed # <<>>
    /\ signal # <<>>
    /\ AnalyzedMarket.yes_price = Rat(85, 100)
    /\ AnalyzedMarket.volume_24h = 847000
    /\ analyze_price_momentum(AnalyzedMarket).score = RZero

\* ------------------------------------------------------------------------
\* C26.  The timing score is 0.4 when 0 < days_to_resolution <= 7, 0.7 when
\* volume_24h is also above 50000, and 0 in every other case.
\*
\* As the claim states it, days_to_resolution is the time from now to the
\* end date, and the score is 0 only without an end date, with an end date
\* that has passed, or with one more than 7 days away:
\* ------------------------------------------------------------------------
TimingScore(within, market) ==
    IF ~within THEN RZero
    ELSE IF market.volume_24h > 50000 THEN Rat(7, 10) ELSE Rat(4, 10)

HoursToEnd(market) == market.end_date[1] - now

C26_TimingByTimeToEndDate ==
    analyzed # <<>> =>
        LET within == /\ AnalyzedMarket.end_date # None
                      /\ 0 < HoursToEnd(AnalyzedMarket)
                      /\ HoursToEnd(AnalyzedMarket) <= 7 * 24
        IN  analyze_timing(AnalyzedMarket).score = TimingScore(within, AnalyzedMarket)

\* C26, as the code has it: days_to_resolution is the number of whole days
\* from now to the end date.  The score is 0.4 (0.7) for an end date at
\* least 1 day and less than 8 days away, and 0 in every other case: also
\* for an end date less than 24 hours away.
C26_TimingByWholeDays ==
    analyzed # <<>> =>
        LET within == /\ AnalyzedMarket.end_date # None
                      /\ 24 <= HoursToEnd(AnalyzedMarket)
                      /\ HoursToEnd(AnalyzedMarket) < 8 * 24
        IN  /\ analyze_timing(AnalyzedMarket).score = TimingScore(within, AnalyzedMarket)
            /\ signal # <<>> =>
                  /\ Has(signal[1].evidence, <<"Near resolution">>) <=> within
                  /\ Has(signal[1].evidence, <<"High volume near resolution">>)
                        <=> (within /\ AnalyzedMarket.volume_24h > 50000)

\* a market that ends in 12 hours, with a 24h volume above 50000: timing 0
C26_Witness ==
    /\ analyzed # <<>>
    /\ signal # <<>>
    /\ AnalyzedMarket.end_date = <<12>>
    /\ AnalyzedMarket.volume_24h > 50000
    /\ analyze_timing(AnalyzedMarket).score = RZero
    /\ ~Has(signal[1].evidence, <<"Near resolution">>)

\* a market that ends in 7 days and 23 hours: timing 0.7
C26_WitnessPastSevenDays ==
    /\ analyzed # <<>>
    /\ signal # <<>>
    /\ AnalyzedMarket.end_date = <<191>>
    /\ analyze_timing(AnalyzedMarket).score = Rat(7, 10)
    /\ Has(signal[1].evidence, <<"High volume near resolution">>)

\* ------------------------------------------------------------------------
\* C27.  For a chosen-side price p in (0, 1) and an edge e > 0 the stake
\* calculate_kelly_fraction(e, 1/p) is min(e / (2 * (1 - p)), 0.25): it
\* depends on the price only through e / (1 - p), is never clamped from
\* below, does not decrease as p grows, and is at the cap of 0.25 exactly
\* when p >= 1 - 2e.
\* ------------------------------------------------------------------------
\* the price behind decimal odds above 1
PriceOf(odds) == RDiv(ROne, odds)

EdgePerLoss(edge, odds) == RDiv(edge, RSub(ROne, PriceOf(odds)))

KellyInputs == {eo \in KellyEdges \X KellyOdds : RGt(eo[1], RZero) /\ RGt(eo[2], ROne)}

C27_WitnessSameRatio ==
    /\ kelly_result # <<>>
    /\ kelly_edge = Rat(5, 100)
    /\ PriceOf(kelly_odds) = Rat(2, 3)
    /\ kelly_result[1] = Rat(75, 1000)
    /\ calculate_kelly_fraction(Rat(10, 100), RInt(3)) = kelly_result[1]

\* ------------------------------------------------------------------------
\* C28.  For a market with yes_price in [0, 1] and book sizes that are not
\* negative the combined confidence is at most 0.895 (0.20 * 1 + 0.30 * 1 +
\* 0.25 * 1 + 0.15 * 0.5 + 0.10 * 0.7): the clamp to 1.0 never changes a
\* value, and get_recommendations with min_confidence >= 0.9 returns the
\* empty list.
\* ------------------------------------------------------------------------
HighestConfidence == Rat(895, 1000)

PriceInUnitSizesNotNegative(i) ==
    /\ RLe(RZero, env_markets[i].yes_price)
    /\ RLe(env_markets[i].yes_price, ROne)
    /\ NonNegativeSizes(env_books[i].bids)
    /\ NonNegativeSizes(env_books[i].asks)

C28_ConfidenceAtMost0895 ==
    /\ \A i \in DOMAIN env_markets :
          (PriceInUnitSizesNotNegative(i) /\ BookParses(i)) =>
              /\ RLe(ConfidenceOf(i), HighestConfidence)
              /\ RMin(ConfidenceOf(i), ROne) = ConfidenceOf(i)
    /\ \A k \in DOMAIN signals :
          PriceInUnitSizesNotNegative(signals[k].market.id) =>
              /\ signals[k].confidence = ConfidenceOf(signals[k].market.id)
              /\ RLe(signals[k].confidence, HighestConfidence)
    /\ (/\ Returned
        /\ RGe(min_confidence, Rat(9, 10))
        /\ \A i \in DOMAIN env_markets : PriceInUnitSizesNotNegative(i))
          => Recs = <<>>

\* a market with every sub-score at its highest, confidence exactly 0.895
\* and the YES side to take, is not returned at min_confidence 0.9
C28_Witness ==
    /\ Returned
    /\ min_confidence = Rat(9, 10)
    /\ max_results > 0
    /\ \E k \in DOMAIN signals :
          /\ signals[k].confidence = HighestConfidence
          /\ signals[k].recommended_position = "YES"
          /\ ScoresOf(signals[k].market.id) =
                [volume_spike         |-> ROne,
                 order_imbalance      |-> ROne,
                 congress_correlation |-> ROne,
                 price_momentum       |-> Rat(1, 2),
                 timing_pattern       |-> Rat(7, 10)]
    /\ Recs = <<>>

\* ------------------------------------------------------------------------
\* C29.  Every recommendation comes from a market whose order-imbalance
\* sub-score is above 0.6; its expected_edge is strictly above 0.03, and at
\* most 0.10 when the book sizes are not negative (the cap of 0.15 is not
\* reached); with a chosen-side price in (0, 1) its suggested_size_pct is
\* strictly positive.
\* ------------------------------------------------------------------------
C29_RecommendationNeedsStrongImbalance ==
    \A k \in DOMAIN recommendations :
        LET rec == recommendations[k]
            i == MarketOf(rec)
        IN  /\ RGt(ScoresOf(i)["order_imbalance"], Rat(6, 10))
            /\ RGt(rec.expected_edge, Rat(3, 100))
            /\ (NonNegativeSizes(env_books[i].bids) /\ NonNegativeSizes(env_books[i].asks)) =>
                  /\ RLe(rec.expected_edge, Rat(10, 100))
                  /\ RLt(rec.expected_edge, EDGE_CAP)
            /\ (RGt(rec.current_price, RZero) /\ RLt(rec.current_price, ROne)) =>
                  RGt(rec.suggested_size_pct, RZero)

\* returned: a recommendation from a book of bids only, with the highest
\* edge a book of sizes >= 0 can give, 0.10, and a positive stake
C29_Witness ==
    /\ Returned
    /\ \E k \in DOMAIN Recs :
          /\ NonNegativeSizes(env_books[MarketOf(Recs[k])].bids)
          /\ Len(env_books[MarketOf(Recs[k])].asks) = 0
          /\ Recs[k].expected_edge = Rat(10, 100)
          /\ ScoresOf(MarketOf(Recs[k]))["order_imbalance"] = ROne
          /\ RLt(Recs[k].current_price, ROne)
          /\ RGt(Recs[k].suggested_size_pct, RZero)

\* returned: a recommendation with the lowest imbalance of the books above
\* the threshold, 0.4: sub-score 0.8, edge 0.04
C29_WitnessLowEdge ==
    /\ Returned
    /\ \E k \in DOMAIN Recs :
          /\ Recs[k].expected_edge = Rat(4, 100)
          /\ ScoresOf(MarketOf(Recs[k]))["order_imbalance"] = Rat(8, 10)

\* ------------------------------------------------------------------------
\* C30.  After any sequence of check_feed_health and check_all_feeds calls,
\* for every feed: HEALTHY implies error_message is None; DEGRADED, DOWN and
\* NOT_CONFIGURED imply error_message is set; a feed checked at least once
\* is not UNKNOWN; a feed without api_endpoint, or one that requires api_key
\* or oauth authentication, is NOT_CONFIGURED after every check and no
\* request is sent for it; check_feed_health with an unknown id raises
\* ValueError and changes no feed.
\* ------------------------------------------------------------------------
Checked(feed_id) == feeds[feed_id].last_check # None

\* by the table: no endpoint, or credentials of a kind the manager has not
NotCheckable(feed_id) ==
    \/ initialize_feeds[feed_id].api_endpoint = None
    \/ /\ initialize_feeds[feed_id].requires_auth
       /\ initialize_feeds[feed_id].auth_type \in {<<"api_key">>, <<"oauth">>}

C30_FeedStatusInvariants ==
    /\ \A feed_id \in DOMAIN feeds :
          LET feed == feeds[feed_id]
          IN  /\ feed.status \in HealthStatus
              /\ feed.status = "HEALTHY" => feed.error_message = None
              /\ feed.status \in {"DEGRADED", "DOWN", "NOT_CONFIGURED"}
                    => feed.error_message # None
              /\ Checked(feed_id) => feed.status # "UNKNOWN"
              /\ ~Checked(feed_id) => feed = initialize_feeds[feed_id]
              /\ NotCheckable(feed_id) =>
                    /\ Checked(feed_id) => feed.status = "NOT_CONFIGURED"
                    /\ feed_id \notin feed_requests
    /\ feed_call.op = "check_all_feeds" =>
          \A feed_id \in DOMAIN feeds : feeds[feed_id].last_check = <<feed_clock>>
    /\ (feed_call.op = "check_feed_health" /\ feed_call.feed_id \notin DOMAIN feeds) =>
          /\ feed_call.raised = "ValueError"
          /\ feed_call.changed = {}
    /\ (feed_call.op = "check_feed_health" /\ feed_call.feed_id \in DOMAIN feeds) =>
          /\ feed_call.raised = "none"
          /\ feed_call.changed = {feed_call.feed_id}

\* check_all_feeds found one requested feed healthy and the other timed out;
\* a check of an unknown id then raised and changed nothing
C30_Witness ==
    /\ feed_call.op = "check_feed_health"
    /\ feed_call.raised = "ValueError"
    /\ feed_call.changed = {}
    /\ feed_clock = 2
    /\ feed_requests = {"polymarket_gamma", "kalshi"}
    /\ feeds["polymarket_gamma"].status = "HEALTHY"
    /\ feeds["polymarket_gamma"].error_message = None
    /\ feeds["kalshi"].status = "DOWN"
    /\ feeds["kalshi"].error_message = <<"Timeout">>
    /\ feeds["kalshi"].last_check = <<1>>
    /\ feeds["dune_analytics"].status = "NOT_CONFIGURED"
    /\ feeds["the_graph"].error_message = <<"No API endpoint configured">>

\* after check_all_feeds one feed is checked again and is healthy, without
\* message, while the other one stays rate limited
C30_WitnessCheckedAgain ==
    /\ feed_clock = 2
    /\ feed_call.changed = {"kalshi"}
    /\ feeds["kalshi"].status = "HEALTHY"
    /\ feeds["kalshi"].last_success = <<2>>
    /\ feeds["kalshi"].error_message = None
    /\ feeds["polymarket_gamma"].status = "DEGRADED"
    /\ feeds["polymarket_gamma"].last_check = <<1>>
    /\ feeds["coresignal"].last_check = <<1>>
    /\ feeds["coresignal"].status = "NOT_CONFIGURED"

====
